---- MODULE Spec2Model ----
(***************************************************************************)
(* AudioMonitor (src/audio_monitor.py): the microphone level monitor, its  *)
(* lamp state machine and the start/stop supervision of its sampling loop. *)
(*                                                                         *)
(* Units.  Levels are in thousandths (0.01 is 10, 0.002 is 2, 0.5 is 500). *)
(* Time is in whole seconds read from the clock variable `now`, which      *)
(* stands for time.time().  A smoothed level is the exact rational         *)
(* <<sum, count>> that np.mean computes from the buffer.                   *)
(*                                                                         *)
(* Steps.  A call is cut into steps where the code waits: a sleep, a join, *)
(* a blocking read, an open of the device, a callback, a write of the      *)
(* configuration file between two accesses to the monitor.  What the code  *)
(* does between two waits is one step; self.stream is read again after a   *)
(* wait.                                                                   *)
(***************************************************************************)
EXTENDS Integers, Sequences, FiniteSets, TLC

\* ------------------------------------------------------------------ bounds
MaxTime == 4          \* the clock runs 0..MaxTime in the sampling specification
MaxLifeTime == 1      \* the clock bound of the lifecycle specifications
MaxDur == 2           \* silence_duration, sound_confirmation_duration in 0..MaxDur
MaxBuf == 2           \* buffer_size in 0..MaxBuf
MaxProbes == 2        \* start_monitoring calls of the negotiation specification
MaxCalls == 3         \* calls of stop_monitoring, and of start_monitoring past its entry
MaxCycles == 2        \* start/stop cycles of the cycling specification

\* The scenario of the lamp test: quiet for QuietSecs seconds, loud from then
\* on but for one quiet chunk at DipSec, on a clock that advances by one chunk.
ChunksPerSecond == 2  \* chunks the device delivers per second
SilenceSecs == 20     \* silence_duration of the scenario, seconds
ConfirmSecs == 5      \* sound_confirmation_duration of the scenario, seconds
ScenarioBuf == 10     \* buffer_size of the scenario
QuietSecs == 25       \* the sound begins at this second
DipSec == 27          \* the second of the single quiet chunk
ScenarioSecs == 34    \* the scenario ends at this second

\* ------------------------------------------------------- program constants
None == -1            \* Python's None for a time stamp, a stream or a thread
max_errors == 5       \* consecutive errors after which the loop gives up
JoinTimeout == 2      \* monitor_thread.join(timeout=2.0)
DefaultThreshold == 10  \* audio_threshold default 0.01, in thousandths
DefaultSilence == 20  \* audio_silence_duration default, seconds
DefaultConfirmation == 5  \* audio_sound_confirmation_duration default, seconds
DefaultBuffer == 10   \* audio_buffer_size default
NumConfigs == 4       \* len(configs_to_try)
PulseDevice == 6      \* input_device_index of the last fallback open

Quiet == 2            \* an RMS of 0.002
Faint == 12           \* an RMS of 0.012, just above the default threshold
Loud == 500           \* an RMS of 0.5
Levels == {Quiet, Faint, Loud}
LifecycleLevels == {Quiet, Loud}

Callers == {"main", "http"}
MainOnly == {"main"}
SlotNames == {"on_silence_detected", "on_sound_restored",
              "on_silence_warning", "on_level_updated"}

VARIABLES
    \* tunables (AudioMonitor.__init__)
    threshold, silence_duration, sound_confirmation_duration, buffer_size,
    device_index, monitoring_enabled,
    \* what the monitor was given: what the configuration file held when the
    \* constructor read it, the arguments of the constructor, and the callbacks
    \* the last set_callbacks was passed (none before the first)
    config_file, given, passed,
    \* session
    is_monitoring, stream, monitor_thread, current_config, stop_lock,
    \* lamp state machine
    lamp_status, previous_lamp_status, silence_start_time, sound_start_time,
    sound_confirmed,
    \* level aggregator
    rms_buffer, current_level,
    \* callbacks: the registered slots, the calls since the last read, and
    \* the lamp callback the loop has called last ("none" before the first)
    callbacks, fired, notified,
    \* environment: the streams PyAudio has opened, the loop threads, the clock
    streams, threads, now,
    \* the calling threads: position, pending join deadline, last return value,
    \* and the locals of the call in progress
    pc, join_deadline, result, locals,
    \* calls made so far
    starts, stops,
    \* device negotiation: the rate and chunk size in use, and the candidates
    \* the last start_monitoring tried with what the device answered
    sample_rate, chunk_size, probed,
    \* a get_lamp_status() in progress: the attributes it has read so far (the
    \* dictionary, once it has returned), and the states the monitor has been
    \* in since the call began
    snapshot, seen

tunables == <<threshold, silence_duration, sound_confirmation_duration,
              buffer_size, device_index, monitoring_enabled>>
inputs == <<config_file, given, passed>>
session == <<is_monitoring, stream, monitor_thread, current_config, stop_lock>>
lamp == <<lamp_status, previous_lamp_status, silence_start_time,
          sound_start_time, sound_confirmed>>
level == <<rms_buffer, current_level>>
callers == <<pc, join_deadline, result, locals, starts, stops>>
negotiated == <<sample_rate, chunk_size, probed>>
reader == <<snapshot, seen>>
vars == <<tunables, inputs, session, lamp, level, callbacks, fired, notified,
          streams, threads, now, callers, negotiated, reader>>

\* ------------------------------------------------------------- the reader
\* The four attributes get_lamp_status() reads, in the order it reads them.
Attributes == <<lamp_status, current_level, is_monitoring, monitoring_enabled>>

\* A get_lamp_status() is between two of its reads.
Reading == \E c \in Callers : pc[c] = "snapshot"

\* A step that writes some of the four attributes: while a get_lamp_status()
\* is in progress the states the monitor passes through are recorded, mid
\* being those between the writes of the step.
Observe(mid) ==
    /\ snapshot' = snapshot
    /\ seen' = IF Reading THEN seen \cup mid \cup {Attributes'} ELSE seen

\* ------------------------------------------------------- level aggregator
RECURSIVE Sum(_)
Sum(s) == IF s = <<>> THEN 0 ELSE Head(s) + Sum(Tail(s))

\* np.mean over a non-empty buffer, as an exact rational <<sum, count>>
Mean(buf) == <<Sum(buf), Len(buf)>>

\* (mutant) the buffer is never trimmed
AppendEvict_NoPop(buf, rms, size) == Append(buf, rms)

\* (mutant) the buffer keeps the newest reading only
AppendEvict_KeepsOne(buf, rms, size) == <<rms>>

\* self.rms_buffer.append(rms); if len > buffer_size: pop(0)
AppendEvict(buf, rms, size) ==
    LET b == Append(buf, rms)
    IN  IF Len(b) > size THEN Tail(b) ELSE b

\* (mutant) no smoothing: the level is the raw RMS of the chunk
Smoothed_Raw(buf, rms) == <<rms, 1>>

\* avg_rms: the mean of the buffer, or the raw RMS when the buffer is empty
Smoothed(buf, rms) == IF Len(buf) > 0 THEN Mean(buf) ELSE <<rms, 1>>

\* avg_rms < self.threshold
BelowThreshold(avg, thr) == avg[1] < thr * avg[2]

\* ------------------------------------------------------ lamp state machine
\* The lamp fields as one record, for the rules below.
LampRec == [lamp_status |-> lamp_status,
            previous_lamp_status |-> previous_lamp_status,
            silence_start_time |-> silence_start_time,
            sound_start_time |-> sound_start_time,
            sound_confirmed |-> sound_confirmed]

\* The lamp fields become those of the record s.
SetLamp(s) ==
    /\ lamp_status' = s.lamp_status
    /\ previous_lamp_status' = s.previous_lamp_status
    /\ silence_start_time' = s.silence_start_time
    /\ sound_start_time' = s.sound_start_time
    /\ sound_confirmed' = s.sound_confirmed

\* if self.on_..._callback: the slot `name` holds a callable
Registered(name, slots) == name \in slots

\* (mutant) a silent iteration leaves the sound timer running
SilenceOnset_KeepsSound(s, t) ==
    [s EXCEPT !.sound_confirmed = FALSE,
              !.silence_start_time = IF @ = None THEN t ELSE @]

\* (mutant) a silent iteration leaves the confirmation standing
SilenceOnset_KeepsConfirmed(s, t) ==
    [s EXCEPT !.sound_start_time = None,
              !.silence_start_time = IF @ = None THEN t ELSE @]

\* The silence branch up to the start of the silence timer (lines 506-516),
\* the clock reading t: the confirmation and the sound timer are cleared and
\* the silence timer is started unless it is running.
SilenceOnset(s, t) ==
    [s EXCEPT !.sound_confirmed = FALSE,
              !.sound_start_time = None,
              !.silence_start_time = IF @ = None THEN t ELSE @]

\* (mutant) the lamp turns red as soon as the level is below the threshold
SilenceElapsed_Immediate(s, u, dur) == [s EXCEPT !.lamp_status = TRUE]

\* (mutant) a silence shorter than the duration puts the lamp out
SilenceElapsed_DarkUntil(s, u, dur) ==
    [s EXCEPT !.lamp_status = (u - s.silence_start_time >= dur)]

\* The silence branch from the computation of the elapsed silence on (lines
\* 524-529), the clock reading u and the silence timer set.
SilenceElapsed(s, u, dur) ==
    LET silence_time == u - s.silence_start_time
    IN  [s EXCEPT !.lamp_status = IF silence_time >= dur THEN TRUE ELSE @]

\* (mutant) the sound must last longer than the confirmation time
SoundRule_Strict(s, t, dur) ==
    LET confirmed == IF s.sound_start_time = None
                     THEN s.sound_confirmed
                     ELSE s.sound_confirmed \/ (t - s.sound_start_time > dur)
    IN  [s EXCEPT !.silence_start_time = None,
                  !.sound_start_time = IF @ = None THEN t ELSE @,
                  !.sound_confirmed = confirmed,
                  !.lamp_status = IF confirmed THEN FALSE ELSE @]

\* (mutant) the elapsed time is evaluated in the onset iteration too
SoundRule_OnsetConfirms(s, t, dur) ==
    LET onset == IF s.sound_start_time = None THEN t ELSE s.sound_start_time
        confirmed == s.sound_confirmed \/ (t - onset >= dur)
    IN  [s EXCEPT !.silence_start_time = None,
                  !.sound_start_time = onset,
                  !.sound_confirmed = confirmed,
                  !.lamp_status = IF confirmed THEN FALSE ELSE @]

\* (mutant) an iteration with sound leaves the silence timer running
SoundRule_KeepsSilence(s, t, dur) ==
    LET confirmed == IF s.sound_start_time = None
                     THEN s.sound_confirmed
                     ELSE s.sound_confirmed \/ (t - s.sound_start_time >= dur)
    IN  [s EXCEPT !.sound_start_time = IF @ = None THEN t ELSE @,
                  !.sound_confirmed = confirmed,
                  !.lamp_status = IF confirmed THEN FALSE ELSE @]

\* The sound branch (avg_rms >= threshold, lines 536-553) at time t.
SoundRule(s, t, dur) ==
    LET confirmed == IF s.sound_start_time = None
                     THEN s.sound_confirmed
                     ELSE s.sound_confirmed \/ (t - s.sound_start_time >= dur)
    IN  [s EXCEPT !.silence_start_time = None,
                  !.sound_start_time = IF @ = None THEN t ELSE @,
                  !.sound_confirmed = confirmed,
                  !.lamp_status = IF confirmed THEN FALSE ELSE @]

\* The elapsed silence handed to a lamp callback:
\* time.time() - self.silence_start_time if self.silence_start_time else 0
\* (a start time of 0 is as false as None).
SilenceArg(s, t) ==
    IF s.silence_start_time # None /\ s.silence_start_time # 0
    THEN <<t - s.silence_start_time, 1>> ELSE <<0, 1>>

\* self.on_level_updated_callback(avg_rms)
LevelArg(avg, rms) == avg

\* (mutant) the lamp callback does not look at the previous lamp state
Changed_Always(s) == TRUE

\* if self.lamp_status != self.previous_lamp_status
Changed(s) == s.lamp_status # s.previous_lamp_status

\* self.previous_lamp_status = self.lamp_status (line 571)
RememberLamp(s) == [s EXCEPT !.previous_lamp_status = s.lamp_status]

\* The loop body runs from a point of it to its next wait, which is the call
\* of a callback, or to its end.  What comes of such a run is a record: the
\* lamp fields as the run leaves them, the calls it makes (at most the one it
\* ends in), and where the thread is then: inside the callback it has called,
\* at the top of the next iteration, or "raised" when a statement of the body
\* raised.

\* From the comparison of the lamp with its previous state (lines 556-571),
\* the lamp fields being s and the clock reading t: when they differ the
\* callback of the new state is called if it is registered, and the previous
\* state is updated once that call has returned.
Notify(s, t, slots) ==
    IF ~Changed(s)
    THEN [lamp |-> s, calls |-> <<>>, pc |-> "top"]
    ELSE LET name == IF s.lamp_status THEN "on_silence_warning"
                     ELSE "on_sound_restored"
         IN  IF Registered(name, slots)
             THEN [lamp |-> s, calls |-> << <<name, SilenceArg(s, t)>> >>,
                   pc |-> name]
             ELSE [lamp |-> RememberLamp(s), calls |-> <<>>, pc |-> "top"]

\* From the computation of the elapsed silence (lines 524-571) at time u:
\* time.time() - self.silence_start_time raises TypeError when the timer has
\* been cleared since this iteration set it.
Elapse(s, u, dur, slots) ==
    IF s.silence_start_time = None
    THEN [lamp |-> s, calls |-> <<>>, pc |-> "raised"]
    ELSE Notify(SilenceElapsed(s, u, dur), u, slots)

\* From the threshold test (lines 502-571) at time t, avg being the avg_rms
\* of this iteration: the iteration that starts the silence timer calls
\* on_silence_detected, if it is registered, before it computes the elapsed
\* silence.
Rules(s, avg, t) ==
    IF BelowThreshold(avg, threshold)
    THEN IF s.silence_start_time = None
            /\ Registered("on_silence_detected", callbacks)
         THEN [lamp |-> SilenceOnset(s, t),
               calls |-> << <<"on_silence_detected", avg>> >>,
               pc |-> "on_silence_detected"]
         ELSE Elapse(SilenceOnset(s, t), t, silence_duration, callbacks)
    ELSE Notify(SoundRule(s, t, sound_confirmation_duration), t, callbacks)

\* (mutant) the threshold test does not wait for on_level_updated
Body_SkipsLevel(s, avg, rms, t) == Rules(s, avg, t)

\* From the return of the read (lines 441-571) at time t, avg being the mean
\* of the buffer with the new reading in it: on_level_updated is called, if
\* it is registered, before the threshold test.
Body(s, avg, rms, t) ==
    IF Registered("on_level_updated", callbacks)
    THEN [lamp |-> s, calls |-> << <<"on_level_updated", LevelArg(avg, rms)>> >>,
          pc |-> "on_level_updated"]
    ELSE Rules(s, avg, t)

\* From the return of the callback the thread is in (its pc), at time t.
Resume(s, avg, name, t) ==
    IF name = "on_level_updated" THEN Rules(s, avg, t)
    ELSE IF name = "on_silence_detected"
    THEN Elapse(s, t, silence_duration, callbacks)
    ELSE [lamp |-> RememberLamp(s), calls |-> <<>>, pc |-> "top"]

\* ------------------------------------------------------------ construction
\* The keys of scheduler_config.json that __init__ looks up with config.get.
ConfigKeys == {"audio_threshold", "audio_silence_duration", "audio_device_index",
               "audio_buffer_size", "audio_sound_confirmation_duration"}

\* What the configuration file can be: not there, there but not readable, not
\* JSON, or JSON of any type: null, a boolean, a number, a string, an array, or
\* an object that has some of the keys.  `enabled` is what the constructor
\* finds when it looks for monitoring_enabled: in an object the key is absent,
\* or present with the value true or false; in an array the string
\* 'monitoring_enabled' is an element ("member") or not, in a string it is a
\* substring ("member") or not.
FileKinds == {"missing", "unreadable", "malformed", "null", "boolean", "number",
              "string", "array", "object"}

ConfigFiles ==
    {[kind |-> k, keys |-> {}, enabled |-> "absent"] : k \in FileKinds \ {"object"}}
    \cup [kind : {"string", "array"}, keys : {{}}, enabled : {"member"}]
    \cup [kind : {"object"}, keys : SUBSET ConfigKeys,
          enabled : {"absent", "true", "false"}]

NoFile == [kind |-> "missing", keys |-> {}, enabled |-> "absent"]

\* The value a configuration file has under each key it holds.
InFile == [audio_threshold |-> 50, audio_silence_duration |-> 30,
           audio_device_index |-> 2, audio_buffer_size |-> 4,
           audio_sound_confirmation_duration |-> 8]

\* The arguments of the constructor: each one left out (None) or given.
Arguments ==
    [threshold : {None, 25}, silence_duration : {None, 7},
     device_index : {None, 1}, buffer_size : {None, 3},
     sound_confirmation_duration : {None, 2}]

\* _load_config: the parsed file, whatever JSON value it is; an empty dict
\* when the file is missing or when opening or parsing it raises.
_load_config(f) ==
    IF f.kind \in {"missing", "unreadable", "malformed"}
    THEN [type |-> "dict", keys |-> {}, enabled |-> "absent"]
    ELSE [type |-> IF f.kind = "object" THEN "dict" ELSE f.kind,
          keys |-> f.keys, enabled |-> f.enabled]

\* arg if arg is not None else config.get(key, default), on a dict
Setting(arg, config, key, default) ==
    IF arg # None THEN arg
    ELSE IF key \in config.keys THEN InFile[key] ELSE default

\* __init__ raises: config.get is evaluated for an argument left out and the
\* parsed file is not a dict (AttributeError, lines 71-75); `'monitoring_enabled'
\* in config` is evaluated on None, a boolean or a number (TypeError, line
\* 109); or the test finds it in an array or a string, which
\* config['monitoring_enabled'] cannot index (TypeError, line 110).
InitRaises(config, g) ==
    \/ config.type # "dict" /\ \E a \in DOMAIN g : g[a] = None
    \/ config.type \in {"null", "boolean", "number"}
    \/ config.type \in {"string", "array"} /\ config.enabled = "member"

\* AudioMonitor(config_file, threshold, ...) called by c
__init__(c) ==
    /\ pc[c] = "new"
    /\ pc' = [pc EXCEPT ![c] = "idle"]
    /\ LET config == _load_config(config_file)
       IN  IF InitRaises(config, given)
           THEN /\ result' = [result EXCEPT ![c] = "raised"]
                /\ UNCHANGED tunables
           ELSE /\ threshold' = Setting(given.threshold, config,
                                        "audio_threshold", DefaultThreshold)
                /\ silence_duration' =
                       Setting(given.silence_duration, config,
                               "audio_silence_duration", DefaultSilence)
                /\ device_index' = Setting(given.device_index, config,
                                           "audio_device_index", None)
                /\ buffer_size' = Setting(given.buffer_size, config,
                                          "audio_buffer_size", DefaultBuffer)
                /\ sound_confirmation_duration' =
                       Setting(given.sound_confirmation_duration, config,
                               "audio_sound_confirmation_duration",
                               DefaultConfirmation)
                /\ monitoring_enabled' = (config.enabled = "true")
                /\ result' = [result EXCEPT ![c] = "constructed"]
    /\ UNCHANGED <<inputs, reader, negotiated, session, lamp, level,
                   callbacks, fired, notified, streams, threads, now, join_deadline,
                   locals, starts, stops>>

\* The locals of a calling thread that is in no call of start_monitoring,
\* stop_monitoring or cleanup.  Inside start_monitoring they are: the behaviour
\* of the device for the four candidates during the call, the index i of the
\* candidate being tried, the rate and chunk size configs_to_try took for the
\* first candidate when the call began, the stream the pending test read was
\* issued on, and the candidates tried so far.  Inside stop_monitoring: the
\* thread object its join was called on (None when it made no join), and where
\* the caller goes on when the stop returns.
NoCall == [device |-> <<>>, i |-> 0, rate |-> None, frames |-> None,
           rd |-> None, tried |-> <<>>, joined |-> None, after |-> "idle"]

\* The fields __init__ sets whatever its arguments are: everything unset, the
\* lamp red.
Fresh ==
    /\ stream = None /\ stop_lock = "free"
    /\ silence_start_time = None /\ is_monitoring = FALSE /\ monitor_thread = None
    /\ sound_start_time = None /\ sound_confirmed = FALSE
    /\ lamp_status = TRUE /\ previous_lamp_status = TRUE
    /\ rms_buffer = <<>> /\ current_level = <<0, 1>>
    /\ current_config = None
    /\ sample_rate = 44100 /\ chunk_size = 1024 /\ probed = <<>>
    /\ snapshot = <<>> /\ seen = {}
    /\ callbacks = {} /\ passed = {}
    /\ fired = <<>> /\ notified = "none"
    /\ streams = <<>> /\ threads = <<>>
    /\ join_deadline = [c \in Callers |-> None]
    /\ result = [c \in Callers |-> "none"]
    /\ locals = [c \in Callers |-> NoCall]
    /\ starts = 0 /\ stops = 0

\* A monitor constructed with no configuration file, its two durations and
\* its buffer size given as arguments.
Explicit ==
    /\ config_file = NoFile
    /\ given = [threshold |-> None, silence_duration |-> silence_duration,
                device_index |-> None, buffer_size |-> buffer_size,
                sound_confirmation_duration |-> sound_confirmation_duration]

\* AudioMonitor.__init__ has returned: the threshold is the default, no device
\* is named, nothing has been called yet.
Constructed ==
    /\ threshold = DefaultThreshold
    /\ device_index = None
    /\ Fresh
    /\ pc = [c \in Callers |-> "idle"]

\* ------------------------------------------------------------------ streams
IsOpen(h) == h # None /\ streams[h] # "closed"
IsActive(h) == h # None /\ streams[h] = "active"

\* stream.close() inside try/except: a closed stream stays closed
CloseStream(ss, h) == IF h = None THEN ss ELSE [ss EXCEPT ![h] = "closed"]

\* stream.start_stream(): PortAudio accepts a start of a running stream
StartStream(ss, h) ==
    IF h # None /\ ss[h] = "stopped" THEN [ss EXCEPT ![h] = "active"] ELSE ss

\* stream.stop_stream() on a stream that is open
StopStream(ss, h) ==
    IF h # None /\ ss[h] = "active" THEN [ss EXCEPT ![h] = "stopped"] ELSE ss

\* A method called on self.stream raises whatever the device does: self.stream
\* is None (AttributeError) or the stream is closed (OSError).
Gone(ss, h) == h = None \/ ss[h] = "closed"

\* self.audio.terminate() has been called (cleanup): PyAudio opens no stream.
Terminated == \E c \in Callers : pc[c] = "terminated"

\* --------------------------------------------------------- start_monitoring
Outcomes == {"unsupported", "open_error", "read_error", "ok"}

\* configs_to_try: the first candidate takes the rate and the chunk size the
\* monitor holds at the time of the call, the other three are fixed.
configs_to_try(rate, frames) ==
    << [format |-> "paFloat32", rate |-> rate, frames_per_buffer |-> frames],
       [format |-> "paInt16", rate |-> 16000, frames_per_buffer |-> 512],
       [format |-> "paInt16", rate |-> 44100, frames_per_buffer |-> 1024],
       [format |-> "paInt16", rate |-> 8000, frames_per_buffer |-> 256] >>

\* What one audio.open answers: a stream, an exception of the
\* driver-unavailable class ("Device unavailable", "ALSA" or "-9985" in its
\* text), or any other exception.
OpenAnswers == {"ok", "unavailable", "error"}

\* How the device treats one candidate: whether is_format_supported accepts
\* it, what the opens answer (the first to the open on self.device_index, the
\* others to the fallback opens should they be made), and whether the test
\* read returns.
Behaviours ==
    [supported : BOOLEAN, opens : [1..4 -> OpenAnswers], reads : BOOLEAN]

\* The behaviour with no fallback in it that gives each outcome.
Plain(outcome) ==
    [supported |-> outcome # "unsupported",
     opens |-> [k \in 1..4 |-> IF outcome = "open_error" THEN "error" ELSE "ok"],
     reads |-> outcome # "read_error"]

\* (mutant) the fallback opens try device 0 before the default device
open_stream_ZeroFirst(dev, a) ==
    LET order == <<dev, 0, None, PulseDevice>>
        n == IF a[1] # "unavailable" THEN 1
             ELSE IF a[2] = "ok" THEN 2 ELSE IF a[3] = "ok" THEN 3 ELSE 4
    IN  [opened |-> a[n] = "ok",
         devices |-> SubSeq(order, 1, n),
         answers |-> [k \in 1..n |-> a[k]]]

\* self.stream = self.audio.open(...) with its fallbacks, the opens answering
\* a: the open on device dev; when it raises an exception of the unavailable
\* class, the opens on no device, on device 0 and on device 6, up to the first
\* that succeeds; the input_device_index of each open made and its answer.
open_stream(dev, a) ==
    LET order == <<dev, None, 0, PulseDevice>>
        n == IF a[1] # "unavailable" THEN 1
             ELSE IF a[2] = "ok" THEN 2 ELSE IF a[3] = "ok" THEN 3 ELSE 4
    IN  [opened |-> a[n] = "ok",
         devices |-> SubSeq(order, 1, n),
         answers |-> [k \in 1..n |-> a[k]]]

\* What comes of a candidate the device treats as b when nothing else touches
\* the stream meanwhile.
Verdict(b) ==
    IF ~b.supported THEN "unsupported"
    ELSE IF ~open_stream(device_index, b.opens).opened THEN "open_error"
    ELSE IF ~b.reads THEN "read_error"
    ELSE "ok"

\* The record of one candidate tried: its index, what came of it, and the
\* opens made for it.
Entry(i, b, outcome) ==
    LET made == open_stream(device_index, b.opens)
    IN  [config |-> i, outcome |-> outcome,
         devices |-> IF b.supported THEN made.devices ELSE <<>>,
         answers |-> IF b.supported THEN made.answers ELSE <<>>]

\* One more candidate in the record of those tried, nothing else having
\* touched the stream.
Tried(lg, i, o) == Append(lg, Entry(i, o[i], Verdict(o[i])))

\* The device as it answers the four candidates, in all its ways, and the
\* devices of the lifecycle specifications: one that works at once and one
\* that never opens.
AllDevices == [1..NumConfigs -> {Plain(x) : x \in Outcomes}]
Works == [i \in 1..NumConfigs |-> Plain("ok")]
NeverOpens == [i \in 1..NumConfigs |-> Plain("open_error")]
LifecycleDevices == {Works, NeverOpens}

\* (mutant) start_monitoring does not look at monitoring_enabled
Disabled_Never == FALSE

\* not self.monitoring_enabled
Disabled == ~monitoring_enabled

\* if not self.monitoring_enabled: return False; configs_to_try is built; the
\* device diagnostics follow (get_device_info, and lsof with its timeout),
\* which the caller waits for before it tries the first candidate.  In a run
\* of at most `limit` calls.
start_entry(c, limit) ==
    /\ pc[c] \in {"idle", "settings_start"}
    /\ IF ~Disabled
       THEN /\ starts + stops < limit
            /\ starts' = starts + 1
            /\ pc' = [pc EXCEPT ![c] = "start_negotiate"]
            /\ result' = [result EXCEPT ![c] = "none"]
            /\ locals' = [locals EXCEPT ![c] = [NoCall EXCEPT !.i = 1,
                                                              !.rate = sample_rate,
                                                              !.frames = chunk_size]]
       ELSE /\ result' = [result EXCEPT ![c] = "false"]
            /\ pc' = [pc EXCEPT ![c] = "idle"]
            /\ UNCHANGED <<starts, locals>>
    /\ UNCHANGED <<inputs, reader, negotiated, tunables, session, lamp, level, callbacks, fired, notified, streams,
                   threads, now, join_deadline, stops>>

start_check_enabled(c) == start_entry(c, MaxCalls)

\* (mutant) the candidate loop skips every other candidate
Following_Skips(i) == i + 2

\* for i, config in enumerate(configs_to_try): the candidate after candidate i
Following(i) == i + 1

\* Candidate locals[c].i is given up (continue), lg being the candidates tried
\* with this one: the next candidate is tried, or after the last one the loop
\* is over and start_monitoring returns False (for ... else).
Abandon(c, dev, lg) ==
    IF Following(locals[c].i) > NumConfigs
    THEN /\ pc' = [pc EXCEPT ![c] = "idle"]
         /\ result' = [result EXCEPT ![c] = "false"]
         /\ probed' = lg
         /\ locals' = [locals EXCEPT ![c] = NoCall]
    ELSE /\ locals' = [locals EXCEPT ![c] = [@ EXCEPT !.i = Following(@),
                                                      !.device = dev,
                                                      !.rd = None,
                                                      !.tried = lg]]
         /\ pc' = [pc EXCEPT ![c] = "start_negotiate"]
         /\ UNCHANGED <<probed, result>>

\* One candidate of the loop up to its test read, on a device that answers
\* the candidates of this call as o:
\*   is_format_supported is false: the candidate is skipped;
\*   audio.open raises (after its fallbacks): the handler closes whatever
\*       self.stream holds and clears it, the candidate is given up;
\*   the stream opens: it is assigned to self.stream and started, and the
\*       blocking test read begins on it.
start_open(c, o) ==
    /\ pc[c] = "start_negotiate"
    /\ LET lc == locals[c]
           dev == <<o[1], o[2], o[3], o[4]>>
           b == IF Terminated THEN Plain("open_error") ELSE o[lc.i]
       IN  /\ lc.i = 1 \/ dev = lc.device
           /\ IF ~b.supported
              THEN /\ Abandon(c, dev, Append(lc.tried, Entry(lc.i, b, "unsupported")))
                   /\ UNCHANGED <<stream, streams>>
              ELSE IF ~open_stream(device_index, b.opens).opened
              THEN /\ streams' = CloseStream(streams, stream)
                   /\ stream' = None
                   /\ Abandon(c, dev, Append(lc.tried, Entry(lc.i, b, "open_error")))
              ELSE /\ streams' = Append(streams, "active")
                   /\ stream' = Len(streams')
                   /\ pc' = [pc EXCEPT ![c] = "start_test"]
                   /\ locals' = [locals EXCEPT ![c] =
                                    [lc EXCEPT !.device = dev,
                                               !.rd = stream',
                                               !.tried = Append(@, Entry(lc.i, b, "opened"))]]
                   /\ UNCHANGED <<probed, result>>
    /\ UNCHANGED <<inputs, reader, tunables, is_monitoring, monitor_thread,
                   current_config, stop_lock, lamp, level, callbacks, fired, notified,
                   threads, now, join_deadline, starts, stops, sample_rate,
                   chunk_size>>

\* The test read of the candidate ends.  It returns when the device delivers
\* and the stream it was issued on is still running; then self.stream, read
\* again, is stopped, the candidate is selected (current_config, sample_rate,
\* chunk_size) and the loop is left (break).  When the read raises, or
\* self.stream has been cleared or closed meanwhile so that stop_stream()
\* raises, the handler closes whatever self.stream holds now, clears it, and
\* the candidate is given up.
start_test(c) ==
    /\ pc[c] = "start_test"
    /\ LET lc == locals[c]
           cands == configs_to_try(lc.rate, lc.frames)
           returned == lc.device[lc.i].reads /\ streams[lc.rd] = "active"
           lg(outcome) == [lc.tried EXCEPT ![Len(lc.tried)].outcome = outcome]
       IN  IF returned /\ ~Gone(streams, stream)
           THEN /\ streams' = StopStream(streams, stream)
                /\ current_config' = lc.i
                /\ sample_rate' = cands[lc.i].rate
                /\ chunk_size' = cands[lc.i].frames_per_buffer
                /\ probed' = lg("ok")
                /\ pc' = [pc EXCEPT ![c] = "start_launch"]
                /\ locals' = [locals EXCEPT ![c] = NoCall]
                /\ UNCHANGED <<stream, result>>
           ELSE /\ streams' = CloseStream(streams, stream)
                /\ stream' = None
                /\ Abandon(c, lc.device,
                           lg(IF returned THEN "stop_error" ELSE "read_error"))
                /\ UNCHANGED <<current_config, sample_rate, chunk_size>>
    /\ UNCHANGED <<inputs, reader, tunables, is_monitoring, monitor_thread,
                   stop_lock, lamp, level, callbacks, fired, notified, threads, now,
                   join_deadline, starts, stops>>

\* A new loop thread, about to test `while self.is_monitoring`: its locals are
\* error_count, the stream its pending read was issued on, and current_rms
\* and avg_rms (unbound until the first chunk has been read).
NewThread == [pc |-> "top", error_count |-> 0, rd |-> None, current_rms |-> None,
              avg_rms |-> None]

\* threading.Thread(target=self._monitor_loop).start()
Spawn(ts) == Append(ts, NewThread)

\* (mutant) start_monitoring empties the level buffer
start_launch_ClearsBuffer(c, ok) ==
    /\ pc[c] = "start_launch"
    /\ IF Gone(streams, stream) \/ ~ok
       THEN /\ result' = [result EXCEPT ![c] = "raised"]
            /\ UNCHANGED <<session, lamp, streams, threads, rms_buffer>>
       ELSE /\ streams' = StartStream(streams, stream)
            /\ is_monitoring' = TRUE
            /\ lamp_status' = TRUE
            /\ previous_lamp_status' = TRUE
            /\ silence_start_time' = None
            /\ sound_start_time' = None
            /\ sound_confirmed' = FALSE
            /\ rms_buffer' = <<>>
            /\ threads' = Spawn(threads)
            /\ monitor_thread' = Len(threads')
            /\ result' = [result EXCEPT ![c] = "true"]
            /\ UNCHANGED <<stream, current_config, stop_lock>>
    /\ pc' = [pc EXCEPT ![c] = "idle"]
    /\ UNCHANGED <<inputs, negotiated, tunables, current_level, callbacks, fired, notified, now,
                   join_deadline, locals, starts, stops>>
    /\ Observe({<<lamp_status, current_level, is_monitoring', monitoring_enabled>>})

\* self.stream.start_stream() (line 341); is_monitoring = True; the lamp reset;
\* the thread.  The start_stream() raises when self.stream has been cleared
\* (AttributeError) or closed (OSError) meanwhile, or when the device refuses
\* (ok is false): the exception reaches the caller and nothing else is done.
start_launch(c, ok) ==
    /\ pc[c] = "start_launch"
    /\ IF Gone(streams, stream) \/ ~ok
       THEN /\ result' = [result EXCEPT ![c] = "raised"]
            /\ UNCHANGED <<session, lamp, streams, threads>>
       ELSE /\ streams' = StartStream(streams, stream)
            /\ is_monitoring' = TRUE
            /\ lamp_status' = TRUE
            /\ previous_lamp_status' = TRUE
            /\ silence_start_time' = None
            /\ sound_start_time' = None
            /\ sound_confirmed' = FALSE
            /\ threads' = Spawn(threads)
            /\ monitor_thread' = Len(threads')
            /\ result' = [result EXCEPT ![c] = "true"]
            /\ UNCHANGED <<stream, current_config, stop_lock>>
    /\ pc' = [pc EXCEPT ![c] = "idle"]
    /\ UNCHANGED <<inputs, negotiated, tunables, level, callbacks, fired, notified, now,
                   join_deadline, locals, starts, stops>>
    /\ Observe({<<lamp_status, current_level, is_monitoring', monitoring_enabled>>})

\* set_callbacks as its callers use it: the server registers all four slots,
\* the soundcheck on_level_updated alone; both call it on a monitor that is
\* not monitoring, just before start_monitoring.
CallSites == {SlotNames, {"on_level_updated"}}

\* (mutant) set_callbacks assigns the slots it is passed and keeps the others
set_callbacks_Merges(c, slots) ==
    /\ pc[c] = "idle"
    /\ passed' = slots
    /\ callbacks' = callbacks \cup slots
    /\ UNCHANGED <<config_file, given, reader, negotiated, tunables, session,
                   lamp, level, fired, notified, streams, threads, now, callers>>

\* set_callbacks(...) with the callbacks `slots` passed: each of the four
\* attributes is assigned its parameter, which is None when it is not passed.
set_callbacks(c, slots) ==
    /\ pc[c] = "idle"
    /\ passed' = slots
    /\ callbacks' = slots
    /\ UNCHANGED <<config_file, given, reader, negotiated, tunables, session,
                   lamp, level, fired, notified, streams, threads, now, callers>>

\* ---------------------------------------------------------- stop_monitoring
IsAlive(t) == t # None /\ threads[t].pc # "exited"

\* (mutant) the early return of stop_monitoring is missing
AlreadyStopped_Never == FALSE

\* if not self.is_monitoring: "already stopped", return
AlreadyStopped == ~is_monitoring

\* with self._stop_lock: if not self.is_monitoring: return; else the flag is
\* cleared and, when the thread self.monitor_thread holds is alive, the join
\* begins on that thread object; in a run of at most `limit` calls.  The call
\* is stop_monitoring() itself, or the one disable_monitoring(), cleanup() or
\* the settings route makes.
stop_entry(c, limit) ==
    /\ pc[c] \in {"idle", "disable_stop", "settings_stop", "cleanup_stop"}
    /\ stop_lock = "free"
    /\ starts + stops < limit
    /\ stops' = stops + 1
    /\ result' = [result EXCEPT ![c] = "none"]
    /\ IF AlreadyStopped
       THEN /\ pc' = [pc EXCEPT ![c] = locals[c].after]
            /\ locals' = [locals EXCEPT ![c] = NoCall]
            /\ UNCHANGED <<is_monitoring, stop_lock, join_deadline>>
       ELSE /\ is_monitoring' = FALSE
            /\ stop_lock' = c
            /\ IF IsAlive(monitor_thread)
               THEN /\ pc' = [pc EXCEPT ![c] = "stop_join"]
                    /\ join_deadline' = [join_deadline EXCEPT ![c] = now + JoinTimeout]
                    /\ locals' = [locals EXCEPT ![c].joined = monitor_thread]
               ELSE /\ pc' = [pc EXCEPT ![c] = "stop_halt"]
                    /\ UNCHANGED <<join_deadline, locals>>
    /\ UNCHANGED <<inputs, negotiated, tunables, stream, monitor_thread, current_config,
                   lamp, level, callbacks, fired, notified, streams, threads, now, starts>>
    /\ Observe({})

stop_clear_flag(c) == stop_entry(c, MaxCalls)

\* (mutant) a join without timeout
JoinReturns_NoTimeout(c) == ~IsAlive(locals[c].joined)

\* (mutant) a join that does not wait
JoinReturns_NoWait(c) == TRUE

\* self.monitor_thread.join(timeout=2.0) returns: the thread the join was
\* called on has exited, or the two seconds are over
JoinReturns(c) == ~IsAlive(locals[c].joined) \/ now >= join_deadline[c]

\* The join returns; whether self.monitor_thread is alive then (line 393)
\* only decides a warning that is printed.
stop_join(c) ==
    /\ pc[c] = "stop_join"
    /\ JoinReturns(c)
    /\ pc' = [pc EXCEPT ![c] = "stop_halt"]
    /\ join_deadline' = [join_deadline EXCEPT ![c] = None]
    /\ UNCHANGED <<inputs, reader, negotiated, tunables, session, lamp, level, callbacks, fired, notified, streams,
                   threads, now, result, locals, starts, stops>>

\* stop_monitoring is over for caller c: the lock is released and the caller
\* goes on where its call of stop_monitoring was made.
Released(c) ==
    /\ stop_lock' = "free"
    /\ pc' = [pc EXCEPT ![c] = locals[c].after]
    /\ locals' = [locals EXCEPT ![c] = NoCall]

\* if self.stream: ... is_active(), stop_stream(), then the sleep of line 403.
\* With no stream nothing is done.  When is_active() raises (the stream is
\* closed) or stop_stream() raises (ok is false), the handler prints and the
\* finally clause clears self.stream, whatever state the stream is left in.
\* A stream that is not active is closed at once (line 406), ok telling
\* whether close() returns, and the sleep of line 407 follows.
stop_halt(c, ok) ==
    /\ pc[c] = "stop_halt"
    /\ IF stream = None
       THEN Released(c) /\ UNCHANGED <<stream, streams>>
       ELSE IF streams[stream] = "closed" \/ ~ok
       THEN Released(c) /\ stream' = None /\ UNCHANGED streams
       ELSE IF streams[stream] = "active"
       THEN /\ streams' = StopStream(streams, stream)
            /\ pc' = [pc EXCEPT ![c] = "stop_close"]
            /\ UNCHANGED <<stream, stop_lock, locals>>
       ELSE /\ streams' = CloseStream(streams, stream)
            /\ pc' = [pc EXCEPT ![c] = "stop_clear"]
            /\ UNCHANGED <<stream, stop_lock, locals>>
    /\ UNCHANGED <<inputs, reader, negotiated, tunables, is_monitoring,
                   monitor_thread, current_config, lamp, level, callbacks, fired, notified,
                   threads, now, join_deadline, result, starts, stops>>

\* (mutant) stop_monitoring forgets the configuration of the session
stop_close_ForgetsConfig(c, ok) ==
    /\ pc[c] = "stop_close"
    /\ current_config' = None
    /\ IF stream = None \/ ~ok
       THEN Released(c) /\ stream' = None /\ UNCHANGED streams
       ELSE /\ streams' = CloseStream(streams, stream)
            /\ pc' = [pc EXCEPT ![c] = "stop_clear"]
            /\ UNCHANGED <<stream, stop_lock, locals>>
    /\ UNCHANGED <<inputs, reader, negotiated, tunables, is_monitoring,
                   monitor_thread, lamp, level, callbacks, fired, notified,
                   threads, now, join_deadline, result, starts, stops>>

\* (mutant) stop_monitoring puts the lamp back to red
stop_close_ResetsLamp(c, ok) ==
    /\ pc[c] = "stop_close"
    /\ lamp_status' = TRUE
    /\ previous_lamp_status' = TRUE
    /\ IF stream = None \/ ~ok
       THEN Released(c) /\ stream' = None /\ UNCHANGED streams
       ELSE /\ streams' = CloseStream(streams, stream)
            /\ pc' = [pc EXCEPT ![c] = "stop_clear"]
            /\ UNCHANGED <<stream, stop_lock, locals>>
    /\ UNCHANGED <<inputs, negotiated, tunables, is_monitoring,
                   monitor_thread, current_config, silence_start_time,
                   sound_start_time, sound_confirmed, level, callbacks, fired, notified,
                   threads, now, join_deadline, result, starts, stops>>
    /\ Observe({})

\* After the sleep of line 403: self.stream.close() on what self.stream holds
\* now, then the sleep of line 407.  When self.stream has been cleared
\* meanwhile (AttributeError) or close() raises (ok is false), the handler
\* prints and the finally clause clears self.stream.
stop_close(c, ok) ==
    /\ pc[c] = "stop_close"
    /\ IF stream = None \/ ~ok
       THEN Released(c) /\ stream' = None /\ UNCHANGED streams
       ELSE /\ streams' = CloseStream(streams, stream)
            /\ pc' = [pc EXCEPT ![c] = "stop_clear"]
            /\ UNCHANGED <<stream, stop_lock, locals>>
    /\ UNCHANGED <<inputs, reader, negotiated, tunables, is_monitoring,
                   monitor_thread, current_config, lamp, level, callbacks, fired, notified,
                   threads, now, join_deadline, result, starts, stops>>

\* After the sleep of line 407: finally self.stream = None, whatever it holds
\* now; the lock is released and stop_monitoring returns.
stop_clear(c) ==
    /\ pc[c] = "stop_clear"
    /\ stream' = None
    /\ Released(c)
    /\ UNCHANGED <<inputs, reader, negotiated, tunables, is_monitoring,
                   monitor_thread, current_config, lamp, level, callbacks, fired, notified,
                   streams, threads, now, join_deadline, result, starts, stops>>

\* ------------------------------------------------------------------ cleanup
\* cleanup(): stop_monitoring() is called first;
cleanup(c) ==
    /\ pc[c] = "idle"
    /\ starts + stops < MaxCalls
    /\ pc' = [pc EXCEPT ![c] = "cleanup_stop"]
    /\ locals' = [locals EXCEPT ![c] = [NoCall EXCEPT !.after = "cleanup_terminate"]]
    /\ UNCHANGED <<inputs, reader, negotiated, tunables, session, lamp,
                   level, callbacks, fired, notified, streams, threads, now,
                   join_deadline, result, starts, stops>>

\* then self.audio.terminate(), which closes every stream PyAudio still holds,
\* whoever opened it.  Nothing is called on the monitor afterwards by c.
cleanup_terminate(c) ==
    /\ pc[c] = "cleanup_terminate"
    /\ streams' = [h \in 1..Len(streams) |-> "closed"]
    /\ pc' = [pc EXCEPT ![c] = "terminated"]
    /\ UNCHANGED <<inputs, reader, negotiated, tunables, session, lamp,
                   level, callbacks, fired, notified, threads, now,
                   join_deadline, result, locals, starts, stops>>

\* ------------------------------------------------- enable / disable
\* enable_monitoring(): the flag is set, nothing is started
enable_monitoring(c) ==
    /\ pc[c] = "idle"
    /\ monitoring_enabled' = TRUE
    /\ UNCHANGED <<inputs, negotiated, threshold, silence_duration,
                   sound_confirmation_duration, buffer_size, device_index, session, lamp, level, callbacks, fired, notified, streams,
                   threads, now, callers>>
    /\ Observe({})

\* (mutant) disable_monitoring clears the flag and stops nothing
disable_monitoring_FlagOnly(c) ==
    /\ pc[c] = "idle"
    /\ monitoring_enabled' = FALSE
    /\ UNCHANGED <<inputs, negotiated, threshold, silence_duration,
                   sound_confirmation_duration, buffer_size, device_index, session, lamp, level, callbacks, fired, notified, streams,
                   threads, now, callers>>
    /\ Observe({})

\* disable_monitoring(): the flag is cleared, whatever it was, then
\* stop_monitoring() when the session is monitoring; the caller goes on into
\* stop_monitoring.
disable_monitoring(c) ==
    /\ pc[c] = "idle"
    /\ monitoring_enabled' = FALSE
    /\ IF is_monitoring
       THEN /\ starts + stops < MaxCalls
            /\ pc' = [pc EXCEPT ![c] = "disable_stop"]
       ELSE UNCHANGED pc
    /\ UNCHANGED <<inputs, negotiated, threshold, silence_duration,
                   sound_confirmation_duration, buffer_size, device_index, session, lamp, level, callbacks, fired, notified, streams,
                   threads, now, join_deadline, result, locals, starts, stops>>
    /\ Observe({})

\* toggle_monitoring(): disable when enabled, enable when not
toggle_monitoring(c) ==
    IF monitoring_enabled THEN disable_monitoring(c) ELSE enable_monitoring(c)

\* ---------------------------------------------------------- update_settings
\* POST /api/settings (scheduler_server.py), as far as the monitor goes: the
\* request data is a JSON object, here a function from the keys it holds to
\* their values; each audio key it holds is assigned to the attribute of the
\* monitor as it comes, with no validation and whether or not a session runs.
SettingIn(data, key, current) == IF key \in DOMAIN data THEN data[key] ELSE current

\* Lines 394-404: the route reads monitoring_enabled; when the value wanted
\* differs from it, the attribute is set and the route goes on into
\* start_monitoring() (enabled now, no session monitoring) or into
\* stop_monitoring() (disabled now, a session monitoring).
SettingsSwitch(c, new_monitoring_enabled) ==
    /\ monitoring_enabled' = new_monitoring_enabled
    /\ IF new_monitoring_enabled # monitoring_enabled /\ new_monitoring_enabled
          /\ ~is_monitoring
       THEN /\ starts + stops < MaxCalls
            /\ pc' = [pc EXCEPT ![c] = "settings_start"]
       ELSE IF new_monitoring_enabled # monitoring_enabled
               /\ ~new_monitoring_enabled /\ is_monitoring
       THEN /\ starts + stops < MaxCalls
            /\ pc' = [pc EXCEPT ![c] = "settings_stop"]
       ELSE pc' = [pc EXCEPT ![c] = "idle"]

\* Lines 345-387: the audio keys of the request are assigned. A request that
\* held one of them then writes the audio settings to the configuration file
\* (_save_audio_settings_to_config, line 387), and the route waits in that
\* file I/O before it looks at monitoring_enabled: the request thread stands
\* at settings_enable or settings_disable, by the value the request wants,
\* while the loop and the other callers run. A request with no audio key
\* writes nothing and goes straight on to lines 390-404. The file the route
\* rewrites is read by the next constructor only; config_file is what the
\* constructor of this monitor read and stays.
update_settings(c, data) ==
    /\ pc[c] = "idle"
    /\ threshold' = SettingIn(data, "audio_threshold", threshold)
    /\ silence_duration' = SettingIn(data, "audio_silence_duration", silence_duration)
    /\ sound_confirmation_duration' =
           SettingIn(data, "audio_sound_confirmation_duration",
                     sound_confirmation_duration)
    /\ buffer_size' = SettingIn(data, "audio_buffer_size", buffer_size)
    /\ device_index' = SettingIn(data, "audio_device_index", device_index)
    /\ IF "monitoring_enabled" \notin DOMAIN data
       THEN UNCHANGED <<monitoring_enabled, pc>>
       ELSE IF DOMAIN data \cap ConfigKeys = {}
       THEN SettingsSwitch(c, data["monitoring_enabled"])
       ELSE /\ UNCHANGED monitoring_enabled
            /\ pc' = [pc EXCEPT ![c] = IF data["monitoring_enabled"]
                                       THEN "settings_enable"
                                       ELSE "settings_disable"]
    /\ UNCHANGED <<inputs, negotiated, session, lamp, level, callbacks,
                   fired, notified, streams, threads, now, join_deadline, result,
                   locals, starts, stops>>
    /\ Observe({})

\* Lines 390-404 after the file I/O of line 387: monitoring_enabled is read as
\* it is now, whatever it was when the request came in.
update_settings_switch(c) ==
    /\ pc[c] \in {"settings_enable", "settings_disable"}
    /\ SettingsSwitch(c, pc[c] = "settings_enable")
    /\ UNCHANGED <<threshold, silence_duration, sound_confirmation_duration,
                   buffer_size, device_index>>
    /\ UNCHANGED <<inputs, negotiated, session, lamp, level, callbacks,
                   fired, notified, streams, threads, now, join_deadline, result,
                   locals, starts, stops>>
    /\ Observe({})

\* ---------------------------------------------------------- get_lamp_status
\* One of the four attribute reads of get_lamp_status(), by caller c: the
\* first one begins the call, the fourth one completes the dictionary, which
\* is returned.  No lock is taken and nothing is waited for.
get_lamp_status_read(c) ==
    /\ pc[c] \in {"idle", "snapshot"}
    /\ \A d \in Callers \ {c} : pc[d] # "snapshot"
    /\ LET sofar == IF pc[c] = "idle" THEN <<>> ELSE snapshot
           k == Len(sofar) + 1
       IN  /\ snapshot' = Append(sofar, Attributes[k])
           /\ seen' = IF k = 1 THEN {Attributes} ELSE seen
           /\ pc' = [pc EXCEPT ![c] = IF k = 4 THEN "idle" ELSE "snapshot"]
    /\ UNCHANGED <<inputs, negotiated, tunables, session, lamp, level, callbacks, fired, notified,
                   streams, threads, now, join_deadline, result, locals, starts, stops>>

\* ------------------------------------------------------------ _monitor_loop
Threads == 1..Len(threads)

\* The loop threads that have not exited.
LiveLoops == {t \in Threads : IsAlive(t)}

\* The loop of thread t ends (break, or the while test fails) with n errors
\* counted: the thread is over, its other locals are gone.
Exit(ts, t, n) ==
    [ts EXCEPT ![t] = [pc |-> "exited", error_count |-> n, rd |-> None,
                       current_rms |-> None, avg_rms |-> None]]

\* (mutant) the loop does not test the flag
Cancelled_Never == FALSE

\* while self.is_monitoring: the test fails
Cancelled == ~is_monitoring

\* (mutant) the loop gives up one failure later
GivesUp_Late(n) == n + 1 > max_errors

\* error_count after one more failure, and whether the loop gives up
GivesUp(n) == n + 1 >= max_errors

\* except Exception (lines 573-579) in loop thread t: the error is counted,
\* the loop gives up at max_errors, else it sleeps and goes round again.
Caught(ts, t) ==
    IF GivesUp(ts[t].error_count)
    THEN Exit(ts, t, ts[t].error_count + 1)
    ELSE [ts EXCEPT ![t].pc = "top", ![t].error_count = @ + 1]

\* Loop thread t, its locals being th, has run its body to the outcome r.
Onward(ts, t, th, r) ==
    IF r.pc = "raised"
    THEN Caught([ts EXCEPT ![t] = th], t)
    ELSE [ts EXCEPT ![t] = [th EXCEPT !.pc = r.pc]]

\* What a start_stream() on an open stream can come to: the stream is active,
\* the call returns and the stream is still inactive, or the call raises.
Restarts == {"active", "inactive", "raises"}

\* The top of an iteration: the while test, then the stream checks.
\*   the flag is cleared, or self.stream is None ("stream unavailable"): the
\*       loop ends;
\*   self.stream is closed: is_active() raises, the handler of the loop body
\*       (lines 573-579) counts the error, gives up at max_errors, else sleeps
\*       and goes round again;
\*   the stream is not active: start_stream(), which comes to outcome: when it
\*       raises the loop ends (break), else the loop sleeps (line 429) before
\*       it goes round again (continue);
\*   else data = self.stream.read(...) begins on the current stream.
loop_top(t, outcome) ==
    /\ threads[t].pc = "top"
    /\ IF Cancelled \/ stream = None
       THEN /\ threads' = Exit(threads, t, threads[t].error_count)
            /\ UNCHANGED streams
       ELSE IF streams[stream] = "closed"
       THEN /\ threads' = Caught(threads, t)
            /\ UNCHANGED streams
       ELSE IF streams[stream] = "stopped"
       THEN /\ threads' = IF outcome = "raises"
                          THEN Exit(threads, t, threads[t].error_count)
                          ELSE [threads EXCEPT ![t].pc = "pause"]
            /\ streams' = IF outcome = "active" THEN StartStream(streams, stream)
                          ELSE streams
       ELSE /\ threads' = [threads EXCEPT ![t].pc = "read", ![t].rd = stream]
            /\ UNCHANGED streams
    /\ UNCHANGED <<inputs, reader, negotiated, tunables, session, lamp, level, callbacks, fired, notified, now, callers>>

\* The sleep of line 429 is over: continue.
loop_wake(t) ==
    /\ threads[t].pc = "pause"
    /\ threads' = [threads EXCEPT ![t].pc = "top"]
    /\ UNCHANGED <<inputs, reader, negotiated, tunables, session, lamp, level,
                   callbacks, fired, notified, streams, now, callers>>

\* The lamp callback called last, after a run of the body that made the calls
\* `calls`: a lamp callback is the last call of the run that makes it.
Notified(last, calls) ==
    IF calls # <<>> /\ calls[Len(calls)][1] \in {"on_silence_warning", "on_sound_restored"}
    THEN calls[Len(calls)][1]
    ELSE last

\* The read returns a chunk of RMS rms: the error count is reset, the reading
\* goes into the buffer, the level is set and the body runs on to its first
\* wait or to its end.  The clock is left to the caller of this definition:
\* the body reads it as it is when the read has returned (now').
read_returns(t, rms) ==
    /\ threads[t].pc = "read"
    /\ streams[threads[t].rd] = "active"
    /\ LET buf == AppendEvict(rms_buffer, rms, buffer_size)
           avg == Smoothed(buf, rms)
           r == Body(LampRec, avg, rms, now')
           th == [NewThread EXCEPT !.current_rms = rms, !.avg_rms = avg]
       IN  /\ rms_buffer' = buf
           /\ current_level' = avg
           /\ fired' = r.calls
           /\ notified' = Notified(notified, r.calls)
           /\ SetLamp(r.lamp)
           /\ threads' = Onward(threads, t, th, r)
    /\ UNCHANGED <<inputs, negotiated, tunables, session, callbacks, streams, callers>>
    /\ Observe({<<lamp_status, current_level', is_monitoring, monitoring_enabled>>})

\* The read returns within the current second.
loop_read_ok(t, rms) == now' = now /\ read_returns(t, rms)

\* The callback loop thread t has called returns, and the body runs on from
\* there on the attributes as they are now.
callback_returns(t) ==
    /\ threads[t].pc \in SlotNames
    /\ LET r == Resume(LampRec, threads[t].avg_rms, threads[t].pc, now)
       IN  /\ fired' = fired \o r.calls
           /\ notified' = Notified(notified, r.calls)
           /\ SetLamp(r.lamp)
           /\ threads' = Onward(threads, t, threads[t], r)
    /\ UNCHANGED <<inputs, negotiated, tunables, session, level, callbacks,
                   streams, now, callers>>
    /\ Observe({})

\* The callback loop thread t has called raises: the rest of the body is
\* skipped.
loop_callback_raises(t) ==
    /\ threads[t].pc \in SlotNames
    /\ threads' = Caught(threads, t)
    /\ UNCHANGED <<inputs, reader, negotiated, tunables, session, lamp, level,
                   callbacks, fired, notified, streams, now, callers>>

\* The read raises: the error is counted and the loop gives up at max_errors;
\* else the handler sets about restarting the stream self.stream holds now:
\* with no stream, or when is_active() raises (the stream is closed), nothing
\* is done and the loop sleeps and goes round again; else the stream is
\* stopped if it is active, and the handler sleeps (line 455) before it
\* starts it.
loop_read_error(t) ==
    /\ threads[t].pc = "read"
    /\ IF GivesUp(threads[t].error_count)
       THEN /\ threads' = Exit(threads, t, threads[t].error_count + 1)
            /\ UNCHANGED streams
       ELSE /\ threads' = [threads EXCEPT
                              ![t].pc = IF Gone(streams, stream) THEN "top" ELSE "mend",
                              ![t].rd = None,
                              ![t].error_count = @ + 1]
            /\ streams' = StopStream(streams, stream)
    /\ UNCHANGED <<inputs, reader, negotiated, tunables, session, lamp, level, callbacks, fired, notified, now, callers>>

\* After the sleep of line 455: self.stream.start_stream() on what self.stream
\* holds now, which comes to outcome; when it raises, as it does when
\* self.stream has been cleared or closed meanwhile, the exception is printed
\* and the stream is left as it is.  The loop sleeps and goes round again.
loop_mend(t, outcome) ==
    /\ threads[t].pc = "mend"
    /\ threads' = [threads EXCEPT ![t].pc = "top"]
    /\ streams' = IF outcome = "active" THEN StartStream(streams, stream) ELSE streams
    /\ UNCHANGED <<inputs, reader, negotiated, tunables, session, lamp, level, callbacks, fired, notified, now, callers>>

\* The read of a stream that has been closed or stopped under the reader
\* raises.
loop_read_closed(t) ==
    /\ threads[t].pc = "read"
    /\ streams[threads[t].rd] # "active"
    /\ loop_read_error(t)

\* The stream goes inactive under the loop: the device has stopped it.
stream_goes_inactive ==
    /\ IsActive(stream)
    /\ streams' = [streams EXCEPT ![stream] = "stopped"]
    /\ UNCHANGED <<inputs, reader, negotiated, tunables, session, lamp, level,
                   callbacks, fired, notified, threads, now, callers>>

\* ------------------------------------------------------------------- clock
\* A second passes on the wall clock time.time() reads.  It may pass at any
\* point of the loop and of the calls: during a read, a callback or a join,
\* during the sleeps of lines 429, 455, 457, 463 and 579, and between any two
\* statements.  The clock stops at `limit` unless a join is still waiting for
\* its timeout.
Tick(limit) ==
    /\ \/ now < limit
       \/ \E c \in Callers : pc[c] = "stop_join" /\ now < join_deadline[c]
    /\ now' = now + 1
    /\ UNCHANGED <<inputs, reader, negotiated, tunables, session, lamp, level, callbacks, fired, notified, streams,
                   threads, callers>>

\* ----------------------------------------------------------- specifications
\* The lifecycle: the monitor as constructed, one calling thread.
Init ==
    /\ Constructed
    /\ silence_duration = 1
    /\ sound_confirmation_duration = 1
    /\ buffer_size = 1
    /\ Explicit
    /\ monitoring_enabled \in BOOLEAN
    /\ now = 0

\* The loop with a device that may fail any read and any start of its stream,
\* and with callbacks any call of which may raise.
LoopStep ==
    \E t \in Threads :
        \/ \E outcome \in Restarts : loop_top(t, outcome) \/ loop_mend(t, outcome)
        \/ loop_wake(t)
        \/ \E rms \in Levels : loop_read_ok(t, rms)
        \/ callback_returns(t)
        \/ loop_callback_raises(t)
        \/ loop_read_error(t)

\* The loop with a device whose reads fail only once the stream is closed or
\* stopped, and whose streams start when they are started.
SteadyLoopStep ==
    \E t \in Threads :
        \/ loop_top(t, "active")
        \/ loop_wake(t)
        \/ \E rms \in LifecycleLevels : loop_read_ok(t, rms)
        \/ loop_read_closed(t)
        \/ loop_mend(t, "active")

\* A callback that a loop thread has called returns.
CallbackStep == \E t \in Threads : callback_returns(t)

\* The steps of the calling threads C inside start_monitoring and inside
\* stop_monitoring, after their entries, on a device from the set D that
\* starts, stops and closes its streams without an error.
InsideSteps(C, D) ==
    \E c \in C :
        \/ \E o \in D : start_open(c, o)
        \/ start_test(c)
        \/ start_launch(c, TRUE)
        \/ stop_join(c)
        \/ stop_halt(c, TRUE)
        \/ stop_close(c, TRUE)
        \/ stop_clear(c)

\* The same with the entry of stop_monitoring.
StepsOn(C, D) == InsideSteps(C, D) \/ \E c \in C : stop_clear_flag(c)

SessionSteps(C) == StepsOn(C, LifecycleDevices)

\* The steps of the calling threads C other than the entry of start_monitoring.
CallSteps(C) ==
    \/ \E c \in C : \E slots \in CallSites : ~is_monitoring /\ set_callbacks(c, slots)
    \/ SessionSteps(C)

StartCall(C) == \E c \in C : start_check_enabled(c)

Next ==
    \/ StartCall(MainOnly) \/ CallSteps(MainOnly)
    \/ SteadyLoopStep \/ CallbackStep
    \/ Tick(MaxLifeTime)

Spec == Init /\ [][Next]_vars

\* The lifecycle with two calling threads (the main thread and a request
\* handler) whose calls may overlap.
ConcNext ==
    StartCall(Callers) \/ SessionSteps(Callers) \/ SteadyLoopStep \/ Tick(MaxLifeTime)

ConcSpec == Init /\ [][ConcNext]_vars

\* A stop_monitoring is draining: the flag is cleared and the join is waiting
\* for a loop thread that has not exited, its timeout not yet over.
Draining ==
    \E c \in Callers : /\ pc[c] = "stop_join"
                        /\ now < join_deadline[c]
                        /\ IsAlive(locals[c].joined)

\* The two calling threads in the scenario of a restart during a stop: after
\* the first start_monitoring, a start is issued only while a stop is draining.
DrainNext ==
    \/ (starts = 0 \/ Draining) /\ StartCall(Callers)
    \/ StepsOn(Callers, {Works})
    \/ SteadyLoopStep
    \/ Tick(MaxLifeTime)

DrainSpec == Init /\ [][DrainNext]_vars

\* The lifecycle on a device that may refuse anything, with the cleanup of the
\* application at its end: a stream may fail to start, to stop or to close.
FaultNext ==
    \/ StartCall(MainOnly)
    \/ \E c \in MainOnly :
          \/ \E o \in LifecycleDevices : start_open(c, o)
          \/ start_test(c)
          \/ stop_clear_flag(c)
          \/ stop_join(c)
          \/ stop_clear(c)
          \/ \E ok \in BOOLEAN :
                start_launch(c, ok) \/ stop_halt(c, ok) \/ stop_close(c, ok)
          \/ cleanup(c)
          \/ cleanup_terminate(c)
    \/ \E t \in Threads :
          \/ \E outcome \in Restarts : loop_top(t, outcome) \/ loop_mend(t, outcome)
          \/ loop_wake(t)
          \/ \E rms \in LifecycleLevels : loop_read_ok(t, rms)
          \/ loop_read_closed(t)
    \/ Tick(MaxLifeTime)

FaultSpec == Init /\ [][FaultNext]_vars

\* The lifecycle under a fair scheduler: time never stops for good, a runnable
\* or sleeping loop thread runs, and a thread that can take its next step
\* inside stop_monitoring takes it.  Nothing makes a read return, so a loop
\* thread may stay blocked in its read for ever.
Fairness ==
    /\ SF_vars(Tick(MaxLifeTime))
    /\ WF_vars(\E t \in Threads : loop_top(t, "active"))
    /\ WF_vars(\E t \in Threads : loop_wake(t))
    /\ WF_vars(\E t \in Threads : loop_mend(t, "active"))
    /\ \A c \in MainOnly : /\ WF_vars(stop_join(c))
                           /\ WF_vars(stop_halt(c, TRUE))
                           /\ WF_vars(stop_close(c, TRUE))
                           /\ WF_vars(stop_clear(c))

\* The lifecycle of a monitor on which no callback is registered.
FairNext ==
    StartCall(MainOnly) \/ SessionSteps(MainOnly) \/ SteadyLoopStep \/ Tick(MaxLifeTime)

FairSpec == Init /\ [][FairNext]_vars /\ Fairness

\* The read of loop thread t ends: it returns a chunk (of sound), or it
\* raises because the stream was closed or stopped under it.
ReadEnds(t) ==
    \/ loop_read_ok(t, Loud)
    \/ loop_read_closed(t)

\* The loop on a device that works and whose reads end.
EndingLoopStep ==
    \E t \in Threads :
        loop_top(t, "active") \/ loop_wake(t) \/ ReadEnds(t) \/ loop_mend(t, "active")

\* The lifecycle, no callback registered, on a device that works, and whose
\* reads end: a loop thread does not stay in its read for ever.
CancelNext ==
    \/ StartCall(MainOnly)
    \/ StepsOn(MainOnly, {Works})
    \/ EndingLoopStep
    \/ Tick(MaxLifeTime)

CancelFairness ==
    /\ Fairness
    /\ WF_vars(\E t \in Threads : ReadEnds(t))

CancelSpec == Init /\ [][CancelNext]_vars /\ CancelFairness

\* Cycling (test_audio_fix.py): one thread enables the monitor and calls
\* start_monitoring and stop_monitoring in turn, MaxCycles times, on a device
\* that works: every candidate opens and a read returns its chunk within the
\* second or as the second turns, so whole seconds pass otherwise only while
\* no loop thread is alive.
CycleInit == Init /\ monitoring_enabled

loop_read_late(t, rms) ==
    /\ now < MaxLifeTime
    /\ now' = now + 1
    /\ read_returns(t, rms)

CycleLoop ==
    \E t \in Threads :
        \/ loop_top(t, "active")
        \/ \E rms \in LifecycleLevels : loop_read_ok(t, rms) \/ loop_read_late(t, rms)

CycleCalls ==
    \E c \in MainOnly :
        \/ starts = stops /\ start_entry(c, 2 * MaxCycles)
        \/ start_open(c, Works)
        \/ start_test(c)
        \/ start_launch(c, TRUE)
        \/ stops < starts /\ stop_entry(c, 2 * MaxCycles)
        \/ stop_join(c)
        \/ stop_halt(c, TRUE)
        \/ stop_close(c, TRUE)
        \/ stop_clear(c)

CycleNext ==
    \/ CycleCalls
    \/ CycleLoop
    \/ LiveLoops = {} /\ Tick(MaxLifeTime)

\* The calling thread and the loop threads are scheduled.
CycleSpec ==
    CycleInit /\ [][CycleNext]_vars /\ WF_vars(CycleCalls) /\ WF_vars(CycleLoop)

\* Cycling as above with a buffer of MaxBuf readings.
CarryInit ==
    /\ Constructed
    /\ silence_duration = 1
    /\ sound_confirmation_duration = 1
    /\ buffer_size = MaxBuf
    /\ Explicit
    /\ monitoring_enabled = TRUE
    /\ now = 0

CarrySpec == CarryInit /\ [][CycleNext]_vars

\* The lifecycle of a monitor that is switched on and off, by
\* enable_monitoring and disable_monitoring or by a request to the settings
\* route that holds monitoring_enabled, alone or after an audio key; no
\* callback registered.
SwitchRequests ==
    [{"monitoring_enabled"} -> BOOLEAN]
    \cup {[audio_buffer_size |-> MaxBuf, monitoring_enabled |-> b] : b \in BOOLEAN}

SwitchNext ==
    \/ FairNext
    \/ \E c \in MainOnly :
          \/ enable_monitoring(c)
          \/ disable_monitoring(c)
          \/ \E data \in SwitchRequests : update_settings(c, data)
          \/ update_settings_switch(c)

SwitchSpec == Init /\ [][SwitchNext]_vars

\* The settings route on a request thread while the main thread switches the
\* monitor on and off: the request thread serves that route only and the main
\* thread calls enable_monitoring and disable_monitoring only, so that either
\* can run while the other waits.
SaveNext ==
    \/ \E data \in SwitchRequests : update_settings("http", data)
    \/ update_settings_switch("http")
    \/ pc["http"] # "idle" /\ (StartCall({"http"}) \/ SessionSteps({"http"}))
    \/ enable_monitoring("main") \/ disable_monitoring("main")
    \/ pc["main"] # "idle" /\ SessionSteps(MainOnly)
    \/ SteadyLoopStep \/ Tick(MaxLifeTime)

SaveSpec == Init /\ [][SaveNext]_vars

\* The lifecycle of a monitor on which one thread calls start_monitoring,
\* stop_monitoring, enable_monitoring, disable_monitoring and
\* toggle_monitoring in any order; no callback registered.
ToggleNext ==
    \/ FairNext
    \/ \E c \in MainOnly :
          enable_monitoring(c) \/ disable_monitoring(c) \/ toggle_monitoring(c)

ToggleSpec == Init /\ [][ToggleNext]_vars

\* The soundcheck after the server: the server registers its four handlers
\* (init_audio_monitor), later on the soundcheck registers on_level_updated
\* alone on the same monitor, which is not monitoring at the time
\* (run_soundcheck stops it first); sessions are started and stopped from the
\* registration of the server on.
SoundcheckNext ==
    \/ \E c \in MainOnly :
          \/ callbacks = {} /\ set_callbacks(c, SlotNames)
          \/ callbacks = SlotNames /\ ~is_monitoring
                /\ set_callbacks(c, {"on_level_updated"})
    \/ callbacks # {} /\ StartCall(MainOnly)
    \/ SessionSteps(MainOnly)
    \/ SteadyLoopStep \/ CallbackStep
    \/ Tick(MaxLifeTime)

SoundcheckSpec == CycleInit /\ [][SoundcheckNext]_vars

\* Device negotiation: start_monitoring called again and again on an enabled
\* monitor, the device answering the candidates in any of its ways and
\* starting the selected stream or not.
ProbeInit == Init /\ monitoring_enabled

ProbeNext ==
    \E c \in MainOnly :
        \/ starts < MaxProbes /\ start_check_enabled(c)
        \/ \E o \in AllDevices : start_open(c, o)
        \/ start_test(c)
        \/ \E ok \in BOOLEAN : start_launch(c, ok)

ProbeSpec == ProbeInit /\ [][ProbeNext]_vars

\* Opening a candidate: start_monitoring called again and again on an enabled
\* monitor whose device index the settings route may set, on a device that
\* treats every candidate alike, in any way.
DeviceRequests == [{"audio_device_index"} -> {None, 0, 2}]

FallbackDevices == {[i \in 1..NumConfigs |-> b] : b \in Behaviours}

OpenNext ==
    \E c \in MainOnly :
        \/ starts < MaxProbes /\ start_check_enabled(c)
        \/ \E o \in FallbackDevices : start_open(c, o)
        \/ start_test(c)
        \/ \E ok \in BOOLEAN : start_launch(c, ok)
        \/ \E data \in DeviceRequests : update_settings(c, data)

OpenSpec == ProbeInit /\ [][OpenNext]_vars

\* Construction: the main thread is about to call AudioMonitor(...), with any
\* configuration file and any arguments.
ConstructInit ==
    /\ config_file \in ConfigFiles
    /\ given \in Arguments
    /\ threshold = None /\ silence_duration = None
    /\ sound_confirmation_duration = None /\ buffer_size = None
    /\ device_index = None /\ monitoring_enabled = FALSE
    /\ Fresh
    /\ pc = [c \in Callers |-> IF c \in MainOnly THEN "new" ELSE "idle"]
    /\ now = 0

ConstructNext == \E c \in MainOnly : __init__(c)

ConstructSpec == ConstructInit /\ [][ConstructNext]_vars

\* The sampling loop of one session: the monitor after construction,
\* set_callbacks and a first successful start_monitoring, with every tunable
\* drawn from its range and a device that may fail any read.
LampInit ==
    /\ threshold = DefaultThreshold
    /\ silence_duration \in 0..MaxDur
    /\ sound_confirmation_duration \in 0..MaxDur
    /\ buffer_size \in 0..MaxBuf
    /\ device_index = None
    /\ Explicit
    /\ monitoring_enabled = TRUE
    /\ is_monitoring = TRUE
    /\ stream = 1 /\ streams = <<"active">>
    /\ monitor_thread = 1 /\ threads = <<NewThread>>
    /\ current_config = 1
    /\ sample_rate = 44100 /\ chunk_size = 1024
    /\ probed = Tried(<<>>, 1, Works)
    /\ snapshot = <<>> /\ seen = {}
    /\ stop_lock = "free"
    /\ lamp_status = TRUE /\ previous_lamp_status = TRUE
    /\ silence_start_time = None /\ sound_start_time = None
    /\ sound_confirmed = FALSE
    /\ rms_buffer = <<>> /\ current_level = <<0, 1>>
    /\ callbacks \in CallSites /\ passed = callbacks
    /\ fired = <<>> /\ notified = "none"
    /\ pc = [c \in Callers |-> "idle"]
    /\ join_deadline = [c \in Callers |-> None]
    /\ result = [c \in Callers |-> IF c = "main" THEN "true" ELSE "none"]
    /\ locals = [c \in Callers |-> NoCall]
    /\ starts = 1 /\ stops = 0
    /\ now = 0

LampNext == LoopStep \/ Tick(MaxTime)

LampSpec == LampInit /\ [][LampNext]_vars

\* The lamp rules: the sampling loop of one session as above, on a device
\* whose every read returns.
RuleNext ==
    \/ \E t \in Threads :
          \/ loop_top(t, "active")
          \/ \E rms \in Levels : loop_read_ok(t, rms)
          \/ callback_returns(t)
    \/ Tick(MaxTime)

RuleSpec == LampInit /\ [][RuleNext]_vars

\* Runtime settings: a first session that samples (every read returns) with
\* the largest buffer, while requests set audio_buffer_size to any size.
BufferRequests == [{"audio_buffer_size"} -> 0..MaxBuf]

SettingsInit ==
    /\ LampInit
    /\ silence_duration = 1 /\ sound_confirmation_duration = 1
    /\ buffer_size = MaxBuf /\ callbacks = SlotNames

Sampling ==
    \E t \in Threads :
        \/ loop_top(t, "active")
        \/ \E rms \in Levels : loop_read_ok(t, rms)
        \/ callback_returns(t)

SettingsNext ==
    \/ Sampling
    \/ Tick(MaxLifeTime)
    \/ \E data \in BufferRequests : update_settings("http", data)

\* The loop thread is scheduled: it goes on sampling.
SettingsSpec == SettingsInit /\ [][SettingsNext]_vars /\ WF_vars(Sampling)

\* Polling: a first session that samples (every read returns) while the
\* request handler calls get_lamp_status() again and again.  A call in
\* progress is runnable, so no whole second passes inside it.
SnapInit ==
    /\ LampInit
    /\ silence_duration = 1 /\ sound_confirmation_duration = 1
    /\ buffer_size = 1 /\ callbacks = SlotNames

SnapNext ==
    \/ Sampling
    \/ ~Reading /\ Tick(MaxLifeTime)
    \/ get_lamp_status_read("http")

SnapSpec == SnapInit /\ [][SnapNext]_vars

\* The scenario.  Its clock counts chunks: ChunksPerSecond units to the second,
\* every read returning one unit after the one before, so all its times and
\* both durations are in chunks.
Chunks(secs) == secs * ChunksPerSecond

\* The RMS of the chunk the device delivers at time t of the scenario.
Feed(t) ==
    IF t < Chunks(QuietSecs) \/ t = Chunks(DipSec) THEN Quiet ELSE Loud

\* The read returns one time unit after the read before it (the first one a
\* unit after the start) with the chunk of the time it returns at.
scenario_chunk(t) ==
    /\ now < Chunks(ScenarioSecs)
    /\ now' = now + 1
    /\ read_returns(t, Feed(now'))

\* A first session just started with the settings of the scenario.
ScenarioInit ==
    /\ threshold = DefaultThreshold
    /\ silence_duration = Chunks(SilenceSecs)
    /\ sound_confirmation_duration = Chunks(ConfirmSecs)
    /\ buffer_size = ScenarioBuf
    /\ device_index = None
    /\ Explicit
    /\ monitoring_enabled = TRUE
    /\ is_monitoring = TRUE
    /\ stream = 1 /\ streams = <<"active">>
    /\ monitor_thread = 1 /\ threads = <<NewThread>>
    /\ current_config = 1
    /\ sample_rate = 44100 /\ chunk_size = 1024
    /\ probed = Tried(<<>>, 1, Works)
    /\ snapshot = <<>> /\ seen = {}
    /\ stop_lock = "free"
    /\ lamp_status = TRUE /\ previous_lamp_status = TRUE
    /\ silence_start_time = None /\ sound_start_time = None
    /\ sound_confirmed = FALSE
    /\ rms_buffer = <<>> /\ current_level = <<0, 1>>
    /\ callbacks \in CallSites /\ passed = callbacks
    /\ fired = <<>> /\ notified = "none"
    /\ pc = [c \in Callers |-> "idle"]
    /\ join_deadline = [c \in Callers |-> None]
    /\ result = [c \in Callers |-> IF c = "main" THEN "true" ELSE "none"]
    /\ locals = [c \in Callers |-> NoCall]
    /\ starts = 1 /\ stops = 0
    /\ now = 0

ScenarioNext ==
    \E t \in Threads :
        loop_top(t, "active") \/ scenario_chunk(t) \/ callback_returns(t)

ScenarioSpec == ScenarioInit /\ [][ScenarioNext]_vars

\* Callbacks that may raise: a first session with all four callbacks
\* registered, any call of which may raise, on a device that may fail any read
\* and any start of its stream.
RaiseInit ==
    /\ LampInit
    /\ silence_duration = 1 /\ sound_confirmation_duration = 1
    /\ buffer_size = 1 /\ callbacks = SlotNames

RaiseNext == LoopStep \/ Tick(MaxTime)

RaiseSpec == RaiseInit /\ [][RaiseNext]_vars

\* A stream that goes inactive: a first session that samples on a device whose
\* stream may stop at any time and may or may not come back when it is
\* restarted; a read of the stopped stream raises.
StallLoop ==
    \E t \in Threads :
        \/ \E outcome \in Restarts : loop_top(t, outcome) \/ loop_mend(t, outcome)
        \/ loop_wake(t)
        \/ \E rms \in Levels : loop_read_ok(t, rms)
        \/ callback_returns(t)
        \/ loop_read_closed(t)

StallNext == StallLoop \/ stream_goes_inactive \/ Tick(MaxTime)

\* The loop thread is scheduled.
StallSpec == RaiseInit /\ [][StallNext]_vars /\ WF_vars(StallLoop)

\* The configuration of a session: the lifecycle of a monitor that is switched
\* on and off, no callback registered, while a request sets audio_device_index,
\* on a device that never opens, or fails the test read of the first candidate
\* and works from the second, and whose reads end; MaxProbes calls of
\* start_monitoring and stop_monitoring in all, with the clock standing (the
\* join of a stop ends when the loop thread has exited).
SecondWorks ==
    [i \in 1..NumConfigs |-> IF i = 1 THEN Plain("read_error") ELSE Plain("ok")]

ConfigDevices == {NeverOpens, SecondWorks}

ConfigRequests == [{"audio_device_index"} -> {2}]

ConfigNext ==
    \/ InsideSteps(MainOnly, ConfigDevices)
    \/ \E c \in MainOnly :
          \/ start_entry(c, MaxProbes)
          \/ stop_entry(c, MaxProbes)
          \/ enable_monitoring(c)
          \/ starts + stops < MaxProbes /\ disable_monitoring(c)
          \/ \E data \in ConfigRequests : update_settings(c, data)
    \/ EndingLoopStep

ConfigSpec == Init /\ [][ConfigNext]_vars

\* The dictionary get_lamp_status() builds from the four values it has read.
StatusOf(a) ==
    [lamp_lit |-> a[1], audio_level |-> a[2],
     monitoring_active |-> a[3], monitoring_enabled |-> a[4]]

\* get_lamp_status() when nothing else runs between its four reads
get_lamp_status == StatusOf(Attributes)

\* ================================================================== claims

\* The steps of loop thread t inside the body of an iteration.  The thread
\* has gone on without an error: the read it was in has returned, or the
\* callback it was in.
Went(t) ==
    /\ threads[t].pc \in {"read"} \cup SlotNames
    /\ threads'[t].pc \in ({"top"} \cup SlotNames) \ {threads[t].pc}
    /\ threads'[t].error_count = 0

\* The callbacks thread t has called in the step.
CallsNow(t) ==
    IF threads[t].pc = "read" THEN fired'
    ELSE SubSeq(fired', Len(fired) + 1, Len(fired'))

\* The read of thread t has returned its chunk (lines 441-495).
Sampled(t) == Went(t) /\ threads[t].pc = "read"

\* Thread t has compared its level with the threshold (line 502).
Ruled(t) ==
    /\ Went(t)
    /\ threads[t].pc \in {"read", "on_level_updated"}
    /\ threads'[t].pc # "on_level_updated"

\* The smoothed level of the iteration thread t is in is below the threshold.
WasBelow(t) == BelowThreshold(threads'[t].avg_rms, threshold)

\* Thread t has run the sound branch (lines 532-553).
Sounded(t) == Ruled(t) /\ ~WasBelow(t)

\* Thread t has begun the silence branch (lines 506-521).
Silenced(t) == Ruled(t) /\ WasBelow(t)

\* Thread t has computed the elapsed silence (lines 524-529).
Timed(t) ==
    \/ Silenced(t) /\ threads'[t].pc # "on_silence_detected"
    \/ Went(t) /\ threads[t].pc = "on_silence_detected"

\* Thread t has completed its iteration (line 571).
Iterated(t) == Went(t) /\ threads'[t].pc = "top"

Count(calls, name) == Cardinality({i \in 1..Len(calls) : calls[i][1] = name})

\* C1 (as claimed): when a start spawns its loop while a stop is still waiting
\* in its join (flag cleared, thread not yet exited, timeout not yet over),
\* no earlier loop thread is still running, so two loops never run together.
C1_NoSecondLoopWhileDraining ==
    [][(Len(threads') > Len(threads) /\ Draining) => LiveLoops = {}]_vars

\* C2 (as claimed): after any sequence of start_monitoring calls, with no stop
\* in between, at most one sampling-loop thread is alive.
C2_OneLoopAfterStarts == stops = 0 => Cardinality(LiveLoops) <= 1

\* C3 (as claimed): whenever stop_monitoring closes the stream, the loop thread
\* it waited for has already exited.
C3_CloseOnlyAfterLoopExit ==
    [][\A c \in Callers :
         (pc[c] \in {"stop_halt", "stop_close"} /\ IsOpen(stream)
            /\ streams'[stream] = "closed")
         => ~IsAlive(locals[c].joined)]_vars

\* C4: a stop_monitoring that has cleared the flag always returns, also when
\* the loop thread stays blocked in its read for ever, and when it returns
\* is_monitoring is false and the stream handle is cleared.
C4_StopTerminates ==
    \A c \in MainOnly :
        (pc[c] \in {"stop_join", "stop_halt", "stop_close", "stop_clear"})
        ~> (pc[c] = "idle" /\ ~is_monitoring /\ stream = None)

\* C4 witness: stop has returned while the loop thread it tried to join is
\* still blocked in its read.
C4_Witness ==
    /\ stops > 0 /\ pc["main"] = "idle"
    /\ ~is_monitoring /\ stream = None
    /\ monitor_thread # None /\ threads[monitor_thread].pc = "read"

\* C5: a stop_monitoring on a session that is not monitoring returns at once
\* to the place it was called from, without an error, and changes nothing:
\* tunables, flags, stream and thread handles, lock, lamp, level, callbacks,
\* streams and threads are as before.
C5_StopIdempotent ==
    [][(stops' = stops + 1 /\ ~is_monitoring)
       => /\ \A c \in Callers : pc'[c] \in {pc[c], locals[c].after}
          /\ \A c \in Callers : result'[c] # "raised"
          /\ UNCHANGED <<inputs, reader, negotiated, tunables, session, lamp, level, callbacks, fired, notified,
                         streams, threads>>]_vars

\* C5 witness: one session and two stops, both returned: one of the two found
\* the session already stopped.
C5_Witness ==
    /\ starts = 1 /\ stops = 2 /\ Len(threads) = 1
    /\ pc["main"] = "idle" /\ ~is_monitoring

\* C6: a step that computes the elapsed silence while the silence has lasted
\* less than silence_duration, on the clock as the step reads it, leaves the
\* lamp as it was; and of the steps of an iteration only that one and the
\* sound branch write the lamp.
C6_NoPrematureRed ==
    [][\A t \in Threads :
         /\ (Timed(t) /\ now' - silence_start_time' < silence_duration)
              => lamp_status' = lamp_status
         /\ (Went(t) /\ ~Timed(t) /\ ~Sounded(t))
              => lamp_status' = lamp_status]_vars

\* C6 witness: a silent iteration is over, the lamp is green and the silence
\* being timed is shorter than silence_duration.
C6_Witness ==
    /\ ~lamp_status /\ silence_start_time # None
    /\ now - silence_start_time < silence_duration
    /\ threads[1].pc = "top" /\ threads[1].error_count = 0
    /\ BelowThreshold(threads[1].avg_rms, threshold)

\* C7 (as claimed): in a silent iteration the lamp is red after the elapsed
\* silence was computed exactly when it was red already or the silence has
\* lasted silence_duration, and on_silence_warning is called once in the step
\* that turns the lamp red and in no other step of any iteration.
C7_RedExactlyOnce ==
    [][\A t \in Threads :
         /\ Timed(t)
              => lamp_status' = (lamp_status
                                 \/ now' - silence_start_time' >= silence_duration)
         /\ Went(t)
              => Count(CallsNow(t), "on_silence_warning")
                   = IF Timed(t) /\ ~lamp_status /\ lamp_status'
                        /\ "on_silence_warning" \in callbacks THEN 1 ELSE 0]_vars

\* C8 (as claimed): from red, under sound, the lamp turns green in exactly the
\* iterations where the time since the sound onset has reached
\* sound_confirmation_duration, the onset iteration included.
C8_GreenAtFirstQualifying ==
    [][\A t \in Threads :
         (Sounded(t) /\ lamp_status)
         => (~lamp_status'
             <=> now' - sound_start_time' >= sound_confirmation_duration)]_vars

\* C8 (amended): in an iteration with sound the lamp is green afterwards exactly
\* when it was green already or the sound had begun in an earlier iteration and
\* has lasted sound_confirmation_duration; and no other step of an iteration
\* turns the lamp green.
C8_GreenAfterOnset ==
    [][\A t \in Threads :
         /\ Sounded(t)
              => (~lamp_status'
                  <=> \/ ~lamp_status
                      \/ /\ sound_start_time # None
                         /\ now' - sound_start_time >= sound_confirmation_duration)
         /\ (lamp_status /\ ~lamp_status' /\ threads'[t] # threads[t])
              => Sounded(t)]_vars

\* C8 witness: the lamp has just turned green, a full confirmation time after
\* the sound began in an earlier iteration.
C8_Witness ==
    /\ ~lamp_status /\ previous_lamp_status /\ sound_confirmed
    /\ sound_confirmation_duration > 0
    /\ now - sound_start_time >= sound_confirmation_duration

\* C9: a silent iteration clears sound_start_time and sound_confirmed; the next
\* iteration with sound restarts the timer at its own time without turning the
\* lamp; and the lamp turns green only in a step that finds a running timer at
\* least sound_confirmation_duration old.
C9_DipRestartsConfirmation ==
    [][\A t \in Threads :
         /\ Silenced(t) => (sound_start_time' = None /\ ~sound_confirmed')
         /\ (Sounded(t) /\ sound_start_time = None)
              => (sound_start_time' = now' /\ lamp_status' = lamp_status)
         /\ (Went(t) /\ lamp_status /\ ~lamp_status')
              => /\ Sounded(t)
                 /\ sound_start_time # None
                 /\ sound_start_time' = sound_start_time
                 /\ now' - sound_start_time >= sound_confirmation_duration]_vars

\* C9 witness: a silence has just begun (on_silence_detected was called) in an
\* iteration that was not the first one (two readings are buffered) with the
\* lamp still red: the iteration before it had sound that was not confirmed,
\* and its timer is now cleared.
C9_Witness ==
    /\ Len(rms_buffer) = 2 /\ Count(fired, "on_silence_detected") = 1
    /\ lamp_status /\ silence_duration > 0
    /\ sound_start_time = None /\ ~sound_confirmed

\* C10: when a read has returned the buffer holds at most buffer_size
\* readings; a full buffer has lost its oldest reading, a buffer with room
\* has kept them all; and no other step of an iteration writes the buffer.
C10_BufferBounded ==
    [][\A t \in Threads :
         /\ Sampled(t)
              => /\ Len(rms_buffer') <= buffer_size
                 /\ Len(rms_buffer) < buffer_size
                      => SubSeq(rms_buffer', 1, Len(rms_buffer)) = rms_buffer
                 /\ (Len(rms_buffer) = buffer_size /\ buffer_size > 0)
                      => SubSeq(rms_buffer', 1, buffer_size - 1) = Tail(rms_buffer)
         /\ (Went(t) /\ ~Sampled(t)) => rms_buffer' = rms_buffer]_vars

\* C10 witness: the lamp is green, which takes two iterations with sound, and
\* the full buffer holds quiet readings only: older readings were evicted.
C10_Witness ==
    /\ buffer_size = 2 /\ rms_buffer = <<Quiet, Quiet>> /\ ~lamp_status

\* C11: when a read has returned current_level is the arithmetic mean of the
\* readings then in the buffer (sum over count), and with nothing in the
\* buffer (buffer_size 0) it is the raw RMS of the chunk just read; the rest
\* of the iteration leaves it so.
C11_LevelIsMean ==
    [][\A t \in Threads :
         /\ Sampled(t)
              => IF Len(rms_buffer') > 0
                 THEN current_level' = <<Sum(rms_buffer'), Len(rms_buffer')>>
                 ELSE /\ buffer_size = 0
                      /\ current_level' = <<threads'[t].current_rms, 1>>
         /\ (Went(t) /\ ~Sampled(t)) => current_level' = current_level]_vars

\* C11 witness: the buffer holds a quiet and a loud reading and the level is
\* their mean, 0.251, which is neither reading.
C11_Witness ==
    /\ rms_buffer = <<Quiet, Loud>>
    /\ current_level = <<Quiet + Loud, 2>>
    /\ \E t \in Threads : threads[t].current_rms = Loud

\* The loop thread of the scenario is between two iterations.
Between == \A t \in Threads : threads[t].pc \in {"top", "read"}

\* C12 (as claimed): in the scenario the snapshot reports lamp_lit false until
\* the silence has lasted SilenceSecs, and true from then to the end of the
\* quiet phase.
C12_DarkUntilTwenty ==
    now < Chunks(QuietSecs)
    => (get_lamp_status.lamp_lit <=> now > Chunks(SilenceSecs))

\* C12 (amended): in the scenario the snapshot reports lamp_lit true at every
\* instant of the quiet phase, from the start of the session on; the silence
\* reaching SilenceSecs changes nothing and calls no on_silence_warning.
C12_LitThroughoutSilence ==
    now < Chunks(QuietSecs)
    => /\ get_lamp_status.lamp_lit
       /\ previous_lamp_status
       /\ Count(fired, "on_silence_warning") = 0

\* C12 witness: the chunk SilenceSecs after the first one has been processed,
\* the silence timed from the first chunk on, the buffer full of quiet
\* readings.
C12_Witness ==
    /\ now = Chunks(SilenceSecs) + 1 /\ Between
    /\ silence_start_time = 1
    /\ Len(rms_buffer) = ScenarioBuf /\ current_level = <<Quiet * ScenarioBuf, ScenarioBuf>>
    /\ lamp_status

\* C13 (as claimed): in the scenario the single quiet chunk at DipSec restarts
\* the confirmation timer, so after it the timer runs from DipSec or later and
\* the lamp is not green before ConfirmSecs have passed since DipSec.
C13_DipRestartsTimer ==
    now > Chunks(DipSec) + 1
    => /\ sound_start_time > Chunks(DipSec)
       /\ ~lamp_status => now >= Chunks(DipSec) + Chunks(ConfirmSecs)

\* C13 (amended): in the scenario the single quiet chunk at DipSec leaves the
\* smoothed level at or above the threshold, so the timer keeps running from
\* the sound onset at QuietSecs, no silence is timed, and the lamp is green
\* exactly from the chunk ConfirmSecs after the onset on.
C13_DipIsSmoothedAway ==
    now > Chunks(QuietSecs)
    => /\ ~BelowThreshold(current_level, threshold)
       /\ sound_start_time = Chunks(QuietSecs)
       /\ silence_start_time = None
       /\ Between => (~lamp_status <=> now >= Chunks(QuietSecs) + Chunks(ConfirmSecs))

\* C13 witness: the quiet chunk at DipSec has just been processed, between
\* the onset and its confirmation, and the lamp is still red.
C13_Witness ==
    /\ now = Chunks(DipSec) /\ Between
    /\ Chunks(QuietSecs) < Chunks(DipSec)
    /\ Chunks(DipSec) < Chunks(QuietSecs) + Chunks(ConfirmSecs)
    /\ \E t \in Threads : threads[t].current_rms = Quiet
    /\ rms_buffer[Len(rms_buffer)] = Quiet
    /\ rms_buffer[Len(rms_buffer) - 1] = Loud
    /\ lamp_status /\ ~sound_confirmed

\* A call of start_monitoring by c has just returned False at its entry.
RefusedAtEntry(c) ==
    /\ pc[c] \in {"idle", "settings_start"} /\ pc'[c] = "idle"
    /\ result[c] # "false" /\ result'[c] = "false"

\* C14: while monitoring_enabled is false no caller gets past the entry of
\* start_monitoring, so no device is probed; and the call that returns False
\* there leaves the flags, the stream and thread handles, the lamp, the timers,
\* the buffer, the level, the streams and the threads as they were.
C14_DisabledStartIsNoOp ==
    [][\A c \in Callers :
         /\ (~monitoring_enabled /\ pc[c] \in {"idle", "settings_start"})
              => pc'[c] # "start_negotiate"
         /\ (~monitoring_enabled /\ RefusedAtEntry(c))
              => UNCHANGED <<inputs, reader, negotiated, tunables, session, lamp, level, callbacks, fired, notified,
                             streams, threads, starts>>]_vars

\* C14 witness: a session has run and was stopped by disable_monitoring with
\* a reading in the buffer, and the start_monitoring called since has
\* returned False (the only call that reached the probing spawned the
\* thread and returned True).
C14_Witness ==
    /\ ~monitoring_enabled /\ result["main"] = "false" /\ pc["main"] = "idle"
    /\ starts = 1 /\ Len(threads) = 1 /\ Len(streams) = 1
    /\ rms_buffer # <<>> /\ ~is_monitoring /\ stream = None

\* Loop thread t completes its first iteration: its first chunk is processed.
FirstIteration(t) ==
    /\ threads[t].pc = "read"
    /\ threads[t].current_rms = None
    /\ threads'[t].current_rms # None

\* C15 (as claimed): when the loop of a new session processes its first chunk
\* it finds the lamp as start_monitoring set it: red, previous red, no silence
\* or sound being timed, sound not confirmed.
C15_FirstIterationFindsFreshLamp ==
    [][\A t \in Threads :
         FirstIteration(t)
         => /\ lamp_status /\ previous_lamp_status
            /\ silence_start_time = None /\ sound_start_time = None
            /\ ~sound_confirmed]_vars

\* The loop of thread t ends in this step.
Ends(t) == threads[t].pc # "exited" /\ threads'[t].pc = "exited"

\* C16 (as claimed): error_count is the number of failed reads in a row.  A
\* read that returns sets it to zero and the loop goes on; a read that fails
\* adds one to it, and the loop ends then exactly when that makes five; no
\* other step of the loop adds to it.
C16_FiveFailedReads ==
    [][\A t \in Threads :
         /\ (threads[t].pc = "read" /\ threads'[t] # threads[t])
              => \/ /\ threads'[t].pc \in {"top"} \cup SlotNames
                    /\ threads'[t].error_count = 0
                    /\ threads'[t].current_rms # None
                 \/ /\ threads'[t].error_count = threads[t].error_count + 1
                    /\ threads'[t].pc \in IF threads'[t].error_count = 5
                                          THEN {"exited"} ELSE {"top", "mend"}
         /\ threads[t].pc # "read"
              => threads'[t].error_count = threads[t].error_count]_vars

\* C16 (amended): error_count is the number of errors since the last read
\* that returned.  A read that returns sets it to zero and the loop goes on; a
\* read that fails adds one to it, and so does a callback that raises and, at
\* the top of an iteration, a closed stream (is_active() raises); the loop
\* ends in the step that adds to the count exactly when that makes five; and
\* a step that does not add to the count ends the loop only at the top of an
\* iteration (the flag is cleared, there is no stream, or an inactive stream
\* fails to restart).
C16_FiveConsecutiveFailures ==
    [][\A t \in Threads :
         threads'[t] # threads[t]
         => LET n == threads[t].error_count
                m == threads'[t].error_count
            IN  /\ threads[t].pc = "read"
                     => \/ m = 0 /\ threads'[t].pc \in {"top"} \cup SlotNames
                        \/ m = n + 1 /\ threads'[t].pc \in {"top", "mend", "exited"}
                /\ threads[t].pc \in SlotNames
                     => \/ m = n /\ threads'[t].pc \in {"top"} \cup SlotNames
                        \/ m = n + 1 /\ threads'[t].pc \in {"top", "exited"}
                /\ threads[t].pc \notin {"read"} \cup SlotNames
                     => \/ m = n
                        \/ /\ m = n + 1 /\ threads[t].pc = "top"
                           /\ stream # None /\ streams[stream] = "closed"
                /\ m = n + 1 => (Ends(t) <=> m = max_errors)
                /\ (Ends(t) /\ m # n + 1) => threads[t].pc = "top"]_vars

\* C16 witness: the loop has ended on its fifth error in a row, after reads
\* that had returned (the buffer holds their readings) and the callbacks they
\* called.
C16_Witness ==
    /\ threads[1].pc = "exited" /\ threads[1].error_count = 5
    /\ Len(rms_buffer) = 2 /\ fired # <<>>

\* C17 (as claimed): once the loop thread of the session has ended, whatever
\* ended it, the snapshot reports monitoring_active false.
C17_InactiveAfterGivingUp ==
    (monitor_thread # None /\ ~IsAlive(monitor_thread))
    => ~get_lamp_status.monitoring_active

\* Caller c has just left the candidate loop of start_monitoring.
Negotiated(c) ==
    /\ pc[c] \in {"start_negotiate", "start_test"}
    /\ pc'[c] \in {"idle", "start_launch"}

\* Every candidate was tried and failed to open or failed its test read.
AllFailed(lg) ==
    /\ Len(lg) = NumConfigs
    /\ \A i \in 1..Len(lg) : lg[i].outcome \in {"open_error", "read_error"}

\* C18 (as claimed): a start_monitoring whose candidates all fail to open or
\* fail the test read returns False without raising, spawns no thread, leaves
\* the stream handle unset and every stream it opened closed, and the session
\* is not monitoring afterwards.
C18_FailedStartLeavesNothing ==
    [][\A c \in Callers :
         (Negotiated(c) /\ AllFailed(probed'))
         => /\ pc'[c] = "idle" /\ result'[c] = "false"
            /\ threads' = threads
            /\ stream' = None
            /\ \A h \in 1..Len(streams') : h > Len(streams) => streams'[h] = "closed"
            /\ ~is_monitoring']_vars

\* C19: the candidates are tried in their order from the first; the one
\* selected is the first whose open and test read succeed and the last one
\* tried; current_config, sample_rate and chunk_size take its values (the
\* first candidate's rate and chunk size are the ones the monitor held when
\* the call began);
\* when none succeeds all were tried and the three are left as they were.
C19_FirstWorkingCandidate ==
    [][\A c \in Callers :
         Negotiated(c)
         => LET n == Len(probed')
                oks == {i \in 1..n : probed'[i].outcome = "ok"}
                rate == <<locals[c].rate, 16000, 44100, 8000>>
                frames == <<locals[c].frames, 512, 1024, 256>>
            IN  /\ \A i \in 1..n : probed'[i].config = i
                /\ IF oks = {}
                   THEN /\ n = 4
                        /\ pc'[c] = "idle"
                        /\ UNCHANGED <<current_config, sample_rate, chunk_size>>
                   ELSE /\ oks = {n}
                        /\ pc'[c] = "start_launch"
                        /\ current_config' = n
                        /\ sample_rate' = rate[n]
                        /\ chunk_size' = frames[n]
                        /\ stream' = Len(streams') /\ streams'[stream'] = "stopped"]_vars

\* C19 witness: the first candidate opened and failed its test read, the
\* second one passed and is selected with its rate and chunk size; the other
\* two were not tried.
C19_Witness ==
    /\ pc["main"] = "start_launch"
    /\ Len(probed) = 2
    /\ probed[1].outcome = "read_error" /\ probed[2].outcome = "ok"
    /\ current_config = 2 /\ sample_rate = 16000 /\ chunk_size = 512
    /\ streams = <<"closed", "stopped">> /\ stream = 2

\* C20 (as claimed): the dictionary a get_lamp_status() returns is the four
\* attributes of one state the monitor was in during the call.
C20_SnapshotOfOneState ==
    (pc["http"] = "idle" /\ Len(snapshot) = 4) => snapshot \in seen

\* The configuration file gives __init__ nothing to use.
Unusable == config_file.kind # "object"

\* C24 (as claimed): the constructor returns a monitor whatever the
\* configuration file is; an argument that is given is the value of its
\* tunable; and with a file that is missing, unreadable or malformed every
\* tunable left out has its default (0.01, 20, 5, 10, no device) and
\* monitoring_enabled is false.
C24_ConstructionNeverFails ==
    (pc["main"] = "idle" /\ result["main"] # "none")
    => /\ result["main"] = "constructed"
       /\ given.threshold # None => threshold = given.threshold
       /\ given.silence_duration # None => silence_duration = given.silence_duration
       /\ given.device_index # None => device_index = given.device_index
       /\ given.buffer_size # None => buffer_size = given.buffer_size
       /\ given.sound_confirmation_duration # None
            => sound_confirmation_duration = given.sound_confirmation_duration
       /\ Unusable
            => /\ given.threshold = None => threshold = DefaultThreshold
               /\ given.silence_duration = None => silence_duration = DefaultSilence
               /\ given.sound_confirmation_duration = None
                    => sound_confirmation_duration = DefaultConfirmation
               /\ given.buffer_size = None => buffer_size = DefaultBuffer
               /\ given.device_index = None => device_index = None
               /\ ~monitoring_enabled

\* C22 (as claimed): in the scenario, where the silence lasts from the start
\* to QuietSecs and so has kept the lamp red for QuietSecs - SilenceSecs when
\* the sound begins, on_sound_restored is called with that much silence at
\* least, and on_silence_warning, if called, with silence_duration at least.
C22_CallbacksGetTheSilence ==
    \A i \in 1..Len(fired) :
        /\ fired[i][1] = "on_sound_restored"
             => fired[i][2][1] >= (Chunks(QuietSecs) - Chunks(SilenceSecs)) * fired[i][2][2]
        /\ fired[i][1] = "on_silence_warning"
             => fired[i][2][1] >= silence_duration * fired[i][2][2]

\* Thread t has compared the lamp with its previous state (line 556).
Compared(t) == Timed(t) \/ Sounded(t)

\* C23: a step of an iteration calls a lamp callback exactly when it is the
\* one that compares the lamp with the stored previous state and the two
\* differ: on_silence_warning once, and nothing else, when the lamp is then
\* red, on_sound_restored once, and nothing else, when it is green (each if
\* it is registered); and when the iteration is complete
\* previous_lamp_status equals lamp_status.
C23_CallbackIffChanged ==
    [][\A t \in Threads :
         /\ Went(t)
              => LET changed == Compared(t) /\ lamp_status' # previous_lamp_status
                     red == Count(CallsNow(t), "on_silence_warning")
                     green == Count(CallsNow(t), "on_sound_restored")
                 IN  /\ red = IF changed /\ lamp_status'
                                 /\ "on_silence_warning" \in callbacks THEN 1 ELSE 0
                     /\ green = IF changed /\ ~lamp_status'
                                   /\ "on_sound_restored" \in callbacks THEN 1 ELSE 0
                     /\ red + green <= 1
         /\ Iterated(t) => previous_lamp_status' = lamp_status']_vars

\* C23 witness: the iteration just completed turned the lamp green and called
\* on_sound_restored and not on_silence_warning; the previous state follows.
C23_Witness ==
    /\ ~lamp_status /\ ~previous_lamp_status
    /\ Count(fired, "on_sound_restored") = 1
    /\ Count(fired, "on_silence_warning") = 0
    /\ \E t \in Threads : threads[t].pc = "top" /\ threads[t].current_rms = Loud

\* A session is running: the flag is set, the stream the loop reads from is
\* open and the loop thread is alive.
Running == is_monitoring /\ IsOpen(stream) /\ IsAlive(monitor_thread)

\* C25 (as claimed): while a session is running no step closes its stream or
\* puts another one, or none, in its place; the stream goes only in a
\* stop_monitoring, which has cleared the flag first.
C25_OnlyStopClosesTheStream ==
    [][Running => (stream' = stream /\ streams'[stream] # "closed")]_vars

\* C26 (as claimed): a buffer longer than buffer_size, which is what lowering
\* buffer_size at runtime leaves, comes down to buffer_size as the loop goes
\* on; and an iteration that finds the buffer within the bound leaves it
\* within the bound, the level being the mean of buffer_size readings at most.
C26_BufferFollowsLoweredSize ==
    /\ (Len(rms_buffer) > buffer_size) ~> (Len(rms_buffer) <= buffer_size)
    /\ [][\A t \in Threads :
            (Sampled(t) /\ Len(rms_buffer) <= buffer_size)
            => /\ Len(rms_buffer') <= buffer_size
               /\ buffer_size > 0 => current_level'[2] <= buffer_size]_vars

\* C27: while is_monitoring is false a loop thread at the top of an iteration
\* can only exit, so no iteration begins; the lamp, the level and the calls
\* change only by the completion of an iteration that was under way (or by
\* a start_monitoring that sets the flag again); and when the flag is false
\* every loop thread has exited later on, unless a start set the flag.
C27_CancellationIsCooperative ==
    /\ [][~is_monitoring
          => /\ \A t \in Threads :
                  (threads[t].pc = "top" /\ threads'[t] # threads[t])
                  => threads'[t].pc = "exited"
             /\ (lamp' # lamp \/ level' # level \/ fired' # fired)
                  => ((\E t \in Threads : Went(t)) \/ is_monitoring')]_vars
    /\ ~is_monitoring ~> (is_monitoring \/ LiveLoops = {})

\* C27 witness: stop_monitoring is waiting in its join, inside the timeout,
\* and the loop thread, which has read chunks without an error, has exited
\* with the stream still open: it left on the flag.
C27_Witness ==
    /\ pc["main"] = "stop_join" /\ ~is_monitoring
    /\ now < join_deadline["main"]
    /\ threads[monitor_thread].pc = "exited"
    /\ threads[monitor_thread].error_count = 0
    /\ IsOpen(stream) /\ rms_buffer # <<>>

\* C21: in start/stop cycles on a working device every call returns; a start
\* passes the probing, spawns one loop thread when no earlier loop thread is
\* alive, and returns True; a stop that found the session monitoring returns
\* without raising, with is_monitoring false, the stream handle cleared, that
\* stream closed and the loop thread exited.
C21_CyclesHandOver ==
    /\ [][\A c \in MainOnly :
            /\ Negotiated(c) => pc'[c] = "start_launch"
            /\ (pc[c] = "start_launch" /\ pc'[c] = "idle")
                 => /\ result'[c] = "true"
                    /\ LiveLoops = {}
                    /\ Len(threads') = Len(threads) + 1
                    /\ is_monitoring' /\ streams'[stream'] = "active"
            /\ (pc[c] \in {"stop_halt", "stop_close", "stop_clear"} /\ pc'[c] = "idle")
                 => /\ result'[c] # "raised"
                    /\ ~is_monitoring' /\ stream' = None
                    /\ \A h \in 1..Len(streams') : streams'[h] = "closed"
                    /\ LiveLoops = {}]_vars
    /\ \A c \in MainOnly : (pc[c] # "idle") ~> (pc[c] = "idle")

\* C21 witness: MaxCycles cycles are over: as many loop threads have run, each
\* has read chunks, all have exited, and the last stop has returned.
C21_Witness ==
    /\ starts = MaxCycles /\ stops = MaxCycles /\ pc["main"] = "idle"
    /\ Len(threads) = MaxCycles /\ LiveLoops = {}
    /\ \A t \in Threads : threads[t].error_count = 0
    /\ ~is_monitoring /\ stream = None
    /\ ~lamp_status /\ now = MaxLifeTime

\* C29: the iteration of a sound onset sets sound_start_time to its own time
\* and neither confirms the sound nor turns the lamp; the sound is confirmed
\* only in an iteration that finds the timer running, so green takes two
\* iterations with sound at least; the iteration of a silence onset sets
\* silence_start_time and, when it computes the elapsed silence in the same
\* step, finds none elapsed; so with silence_duration = 0 every silent
\* iteration leaves the lamp red.
C29_OnsetNeverConfirms ==
    [][\A t \in Threads :
         /\ (Sounded(t) /\ sound_start_time = None)
              => /\ sound_start_time' = now'
                 /\ ~sound_confirmed'
                 /\ lamp_status' = lamp_status
         /\ (Went(t) /\ ~sound_confirmed /\ sound_confirmed')
              => /\ Sounded(t)
                 /\ sound_start_time # None /\ sound_start_time' = sound_start_time
         /\ (Silenced(t) /\ silence_start_time = None)
              => /\ silence_start_time' = now'
                 /\ Timed(t) => lamp_status' = (lamp_status \/ silence_duration <= 0)
         /\ (Timed(t) /\ silence_duration = 0) => lamp_status']_vars

\* C29 witness: with both durations 0 the lamp has just turned green, in the
\* second of two iterations with sound within the same second.
C29_Witness ==
    /\ sound_confirmation_duration = 0 /\ silence_duration = 0
    /\ ~lamp_status /\ sound_confirmed /\ sound_start_time = now
    /\ Count(fired, "on_sound_restored") = 1
    /\ rms_buffer = <<Loud, Loud>>

\* C30: an iteration whose level is not below the threshold clears
\* silence_start_time; the next silent iteration starts the timer at its own
\* time and the following silent ones keep it; and the lamp turns red only
\* where a silent iteration computes the elapsed silence, at least
\* silence_duration after that onset.
C30_SoundInterruptsSilence ==
    [][\A t \in Threads :
         /\ Sounded(t) => silence_start_time' = None
         /\ (Silenced(t) /\ silence_start_time = None) => silence_start_time' = now'
         /\ (Silenced(t) /\ silence_start_time # None)
              => silence_start_time' = silence_start_time
         /\ (Went(t) /\ ~lamp_status /\ lamp_status')
              => /\ Timed(t)
                 /\ now' - silence_start_time' >= silence_duration]_vars

\* C30 witness: the lamp is green with the sound unconfirmed and its timer
\* just started: a silence shorter than silence_duration had begun under the
\* green lamp and the iteration just completed, with sound, has interrupted it.
C30_Witness ==
    /\ ~lamp_status /\ ~sound_confirmed
    /\ sound_start_time = now /\ silence_start_time = None
    /\ silence_duration > 0 /\ sound_confirmation_duration > 0
    /\ \E t \in Threads : threads[t].pc = "top" /\ threads[t].current_rms # None

\* C28: for every candidate that is opened, the opens made are the one on
\* self.device_index and then, only when that one failed with an error of the
\* unavailable class, the ones on no device, on device 0 and on device 6, in
\* that order and up to the first that succeeds; the candidate is abandoned
\* for its open only when the last of the three failed too, or at once when
\* the first open failed with an error of another class.
C28_FallbackOrder ==
    [][\A c \in Callers :
         Negotiated(c)
         => \A i \in 1..Len(probed') :
              LET e == probed'[i]
                  n == Len(e.devices)
              IN  e.outcome # "unsupported"
                  => /\ n \in 1..4
                     /\ e.devices = SubSeq(<<device_index, None, 0, PulseDevice>>, 1, n)
                     /\ \A k \in 1..(n - 1) : e.answers[k] # "ok"
                     /\ n > 1 <=> e.answers[1] = "unavailable"
                     /\ n \in 2..3 => e.answers[n] = "ok"
                     /\ e.outcome = "open_error" <=> e.answers[n] # "ok"
                     /\ e.outcome = "open_error"
                        => n = 4 \/ (n = 1 /\ e.answers[1] = "error")]_vars

\* C28 witness: with device 2 configured, a candidate whose opens on device
\* 2, on no device and on device 0 failed was opened on device 6 and selected.
C28_Witness ==
    /\ device_index = 2
    /\ current_config # None
    /\ probed # <<>>
    /\ LET e == probed[Len(probed)]
       IN  /\ e.outcome = "ok"
           /\ e.devices = <<2, None, 0, PulseDevice>>
           /\ e.answers[1] = "unavailable"
           /\ e.answers[4] = "ok"
           /\ stream # None

\* The callback loop thread t was in has raised, or a statement of the body
\* after its return has.
Raised(t) ==
    /\ threads[t].pc \in SlotNames
    /\ threads'[t].pc \notin SlotNames
    /\ threads'[t].error_count > 0

\* C31 (as claimed): every iteration that gets to its read calls a registered
\* on_level_updated, once, with the smoothed level, before anything else:
\* when the read is over the thread is inside that call.
C31_OnceInEveryIteration ==
    [][\A t \in Threads :
         (threads[t].pc = "read" /\ threads'[t] # threads[t]
            /\ "on_level_updated" \in callbacks)
         => /\ threads'[t].pc = "on_level_updated"
            /\ fired' = << <<"on_level_updated", current_level'>> >>]_vars

\* C31 (amended): the step in which a read returns calls a registered
\* on_level_updated with the smoothed level of the iteration, and does nothing
\* else: the lamp and its timers are as before, and they are so still when
\* that call raises; no other step of the iteration calls on_level_updated,
\* and the threshold test comes when the call has returned.  An iteration
\* whose read fails calls nothing.
C31_LevelCallbackFirst ==
    [][\A t \in Threads :
         /\ Sampled(t)
              => IF "on_level_updated" \in callbacks
                 THEN /\ CallsNow(t) = << <<"on_level_updated", current_level'>> >>
                      /\ threads'[t].pc = "on_level_updated"
                      /\ UNCHANGED lamp
                 ELSE Count(CallsNow(t), "on_level_updated") = 0
         /\ (Went(t) /\ ~Sampled(t)) => Count(CallsNow(t), "on_level_updated") = 0
         /\ (Ruled(t) /\ "on_level_updated" \in callbacks)
              => threads[t].pc = "on_level_updated"
         /\ (Raised(t) /\ threads[t].pc = "on_level_updated")
              => UNCHANGED <<lamp, fired>>
         /\ (threads[t].pc = "read" /\ ~Sampled(t))
              => UNCHANGED <<lamp, level, fired>>]_vars

\* C31 witness: the iteration just completed has turned the lamp green; it
\* called on_level_updated with the new level and then on_sound_restored.
C31_Witness ==
    /\ Len(fired) = 2
    /\ fired[1] = <<"on_level_updated", current_level>>
    /\ fired[2][1] = "on_sound_restored"
    /\ ~lamp_status /\ ~previous_lamp_status
    /\ \E t \in Threads : threads[t].pc = "top" /\ threads[t].error_count = 0

\* C32 (as claimed): when a callback raises the loop thread does not exit, the
\* lamp is left as the iteration has set it, and previous_lamp_status is
\* updated to it.
C32_CallbackErrorsContained ==
    [][\A t \in Threads :
         Raised(t) => /\ threads'[t].pc # "exited"
                      /\ lamp_status' = lamp_status
                      /\ previous_lamp_status' = lamp_status']_vars

\* C33 (as claimed): a loop that restarts its inactive stream gets to a read,
\* to a counted error or to its end, unless the stream comes back: it does not
\* go on restarting for ever a stream that stays inactive.
C33_RestartsAreBounded ==
    (monitor_thread # None /\ threads[monitor_thread].pc = "pause")
    ~> \/ threads[monitor_thread].pc \in {"read", "exited"}
       \/ threads[monitor_thread].error_count > 0
       \/ IsActive(stream)

\* C34: current_config, sample_rate and chunk_size are changed by the
\* candidate loop of start_monitoring and by nothing else: no loop iteration,
\* no step of stop_monitoring, no enable or disable and no update of the
\* settings changes them.
C34_ConfigurationFixed ==
    [][(\A c \in Callers : ~Negotiated(c))
       => UNCHANGED <<current_config, sample_rate, chunk_size>>]_vars

\* C34 witness: a session that selected the second candidate has sampled, the
\* device index was set meanwhile and the monitor was disabled, which stopped
\* it: the configuration is still that of the second candidate.
C34_Witness ==
    /\ current_config = 2 /\ sample_rate = 16000 /\ chunk_size = 512
    /\ device_index # None
    /\ rms_buffer # <<>>
    /\ ~monitoring_enabled /\ ~is_monitoring /\ stops > 0
    /\ \A c \in Callers : pc[c] = "idle"

\* C35: when an iteration completes, one of silence_start_time and
\* sound_start_time is set and the other is not, and sound_confirmed only
\* with sound_start_time set and the lamp green.
C35_OneTimerRuns ==
    [][\A t \in Threads :
         Iterated(t)
         => /\ (silence_start_time' # None) # (sound_start_time' # None)
            /\ sound_confirmed' => (sound_start_time' # None /\ ~lamp_status')]_vars

\* C35 witness: an iteration has just completed with the sound confirmed: the
\* sound timer is set, the silence timer is not, the lamp is green.
C35_Witness ==
    /\ sound_confirmed /\ ~lamp_status
    /\ sound_start_time # None /\ silence_start_time = None
    /\ fired # <<>>
    /\ \E t \in Threads : threads[t].pc = "top" /\ threads[t].current_rms # None

\* The calls of the two lamp callbacks.
IsLampCall(call) == call[1] \in {"on_silence_warning", "on_sound_restored"}

\* C36 (as claimed): in the one session of the specification every call of a
\* lamp callback is of the other callback than the lamp callback called last
\* before it, and the first one is of on_sound_restored.
C36_LampCallbacksAlternate ==
    [][\A t \in Threads :
         Went(t)
         => \A i \in 1..Len(CallsNow(t)) :
              IsLampCall(CallsNow(t)[i])
              => /\ CallsNow(t)[i][1] # notified
                 /\ notified = "none" => CallsNow(t)[i][1] = "on_sound_restored"]_vars

\* No call is in progress.
Quiescent == \A c \in Callers : pc[c] = "idle"

\* C37: whenever every call of start_monitoring, stop_monitoring,
\* enable_monitoring, disable_monitoring and toggle_monitoring made so far has
\* returned, one after the other, a monitor that is monitoring is enabled.
C37_ActiveOnlyIfEnabled == Quiescent => (is_monitoring => monitoring_enabled)

\* C37 witness: a session was started and the monitor then disabled: the
\* call has returned with the session stopped.
C37_Witness ==
    /\ Quiescent
    /\ starts > 0 /\ stops > 0 /\ Len(threads) > 0
    /\ ~monitoring_enabled /\ ~is_monitoring /\ stream = None

\* C38: the slots registered are those the last set_callbacks was passed and
\* no other, so that after the set_callbacks of the soundcheck, which passes
\* on_level_updated alone, the three handlers of the server are registered no
\* more; and an iteration calls registered slots only.
C38_SetCallbacksReplacesAll ==
    [][/\ callbacks' = passed'
       /\ \A t \in Threads :
            Went(t) => \A i \in 1..Len(CallsNow(t)) : CallsNow(t)[i][1] \in callbacks]_vars

\* C38 witness: after the soundcheck has registered its callback a session
\* has turned the lamp green, and the iteration just completed is in silence
\* again, at its onset: it called on_level_updated and nothing else.
C38_Witness ==
    /\ passed = {"on_level_updated"}
    /\ callbacks = {"on_level_updated"}
    /\ is_monitoring
    /\ ~lamp_status /\ ~previous_lamp_status
    /\ silence_start_time = now
    /\ fired = << <<"on_level_updated", current_level>> >>
    /\ BelowThreshold(current_level, threshold)

\* A start_monitoring has just launched its loop thread.
Launched == Len(threads') > Len(threads)

\* C39: the level buffer and the level are changed by the iterations of the
\* loop only, each of which appends its reading to the buffer as it finds it
\* and takes the mean of the result, whichever session the older readings are
\* of; no step of start_monitoring or stop_monitoring changes them, while the
\* launch of a session resets the lamp and its timers.
C39_LevelSurvivesRestart ==
    [][/\ (\A t \in Threads : ~Sampled(t)) => UNCHANGED level
       /\ \A t \in Threads :
            Sampled(t)
            => /\ rms_buffer' = AppendEvict(rms_buffer, threads'[t].current_rms,
                                            buffer_size)
               /\ current_level' = Mean(rms_buffer')
       /\ Launched
          => /\ lamp_status' /\ previous_lamp_status' /\ ~sound_confirmed'
             /\ silence_start_time' = None /\ sound_start_time' = None]_vars

\* C39 witness: a second session has been launched and its loop is in its first
\* read: the lamp is red and both timers are unset, while the buffer and the
\* level are those the first session left, which the reading to come will be
\* averaged with.
C39_Witness ==
    /\ starts = 2 /\ Len(threads) = 2 /\ is_monitoring
    /\ threads[1].pc = "exited"
    /\ threads[2].pc = "read" /\ threads[2].current_rms = None
    /\ rms_buffer = <<Quiet, Loud>>
    /\ current_level = <<Quiet + Loud, 2>>
    /\ lamp_status /\ previous_lamp_status /\ ~sound_confirmed
    /\ silence_start_time = None /\ sound_start_time = None

\* A step of stop_monitoring by caller c: its entry, the return of its join,
\* the stop of the stream, its close, or the clearing of the handle.
StopStep(c) ==
    \/ pc[c] \in {"idle", "disable_stop", "settings_stop", "cleanup_stop"}
          /\ stops' = stops + 1
    \/ pc[c] \in {"stop_join", "stop_halt", "stop_close", "stop_clear"}
          /\ pc'[c] # pc[c]

\* The stop_monitoring of caller c returns with this step.
StopReturns(c) ==
    StopStep(c) /\ pc'[c] \in {"idle", "cleanup_terminate"}

\* C40: no step of stop_monitoring changes the lamp, its timers,
\* sound_confirmed, the buffer or the level, and when it returns
\* get_lamp_status() gives the lamp and the level as they were, with
\* monitoring_active false.
C40_StopKeepsTheLamp ==
    [][\A c \in Callers :
         StopStep(c)
         => /\ UNCHANGED <<lamp, level>>
            /\ StopReturns(c)
               => get_lamp_status' = [lamp_lit |-> lamp_status,
                                      audio_level |-> current_level,
                                      monitoring_active |-> FALSE,
                                      monitoring_enabled |-> monitoring_enabled]]_vars

\* C40 witness: a session that had turned the lamp green on a loud level has
\* been stopped: the snapshot reports the lamp dark and that level, and
\* monitoring_active false.
C40_Witness ==
    /\ stops > 0 /\ Quiescent /\ stream = None
    /\ ~lamp_status /\ ~previous_lamp_status
    /\ sound_confirmed /\ sound_start_time # None
    /\ get_lamp_status = [lamp_lit |-> FALSE, audio_level |-> <<Loud, 1>>,
                          monitoring_active |-> FALSE,
                          monitoring_enabled |-> monitoring_enabled]
====
